---- MODULE Spec2Model ----
(***************************************************************************)
(* A model of the retrieval and ranking pipeline of the Minnets backend:   *)
(* the doughnut scorer (retrieval/scoring.py), the round-robin combiner    *)
(* (retrieval/orthogonal_search.py), the weighted and graph-pivot routes   *)
(* (retrieval/cascade_router.py) and the /analyze pipeline (main.py).      *)
(*                                                                         *)
(* Numbers.  Similarities and web scores are integers in thousandths       *)
(* (0.85 is 850), strategy weights integers in hundredths (0.2 is 20).     *)
(* Relevance and novelty are integers in ten-thousandths (0.475 is 4750),  *)
(* final scores in units of 10^-7, and adjusted scores of the weighted     *)
(* route in units of 10^-7 (thousandths times two factors in hundredths).  *)
(* All the products the code forms are exact in these units; only the      *)
(* natural logarithm of the temporal boost is tabulated (LnMilli).         *)
(*                                                                         *)
(* Each component has its own specification; the variables of the other    *)
(* components are held at their idle values.                               *)
(***************************************************************************)
EXTENDS Integers, Sequences, FiniteSets, TLC

VARIABLES
    \* RetrievalScorer and the scoring/synthesis tail of /analyze, /search-web
    sc_pc, sc_items, sc_max_results, sc_mmr, sc_boosted, sc_ranked, sc_suggestions,
    \* OrthogonalSearcher.combine_results: its arguments and its result
    cr_pc, cr_results, cr_max_total, cr_combined,
    \* CascadeRouter.route_weighted: position, the StrategyWeights argument, the
    \* dispatched tasks with their metadata, what each inner call did, what
    \* asyncio.gather returned per task, the ranked candidates, the CascadeResult
    rw_pc, rw_weights, rw_tasks, rw_outcomes, rw_results, rw_candidates, rw_result,
    \* CascadeRouter._check_graph: position, the anchors of the search, the
    \* anchors get_related is still to be called for, the neighbours, the result
    cg_pc, cg_anchors, cg_pending, cg_neighbors, cg_result,
    \* analyze_context: position, the begin and end events of the steps so far,
    \* the locals of the handler, the decision log, the response
    \* and the answers of the /feedback requests that followed it, start_time,
    \* the reading of time.time(), and the local processing_time
    an_pc, an_trace, an_weights, an_concepts, an_cascade, an_scored, an_suggestions,
    an_log, an_response, an_feedback, an_start_time, an_clock, an_processing_time,
    \* JudgeLogger: position, the lines of the log file, the pairs read from it
    lg_pc, lg_file, lg_pairs,
    \* OrthogonalVectorMath: each caller's position and the table it holds,
    \* self._domain_centroids, self._bridge_vectors, and how often each of the
    \* two attributes was assigned a new table
    bv_pc, bv_result, bv_centroids, bv_bridges, bv_writes,
    \* ContextJudge.analyze: position, the keyword groups of the app name, what
    \* the LLM call came to, the result, and the calls so far
    cj_pc, cj_app, cj_outcome, cj_result, cj_calls,
    \* _fetch_orthogonal / search_all_strategies: position, the arguments and
    \* settings, the number of user memories, the vibe, the strategies
    \* dispatched, what each ended with, the lambda the PCA subtraction used,
    \* and what _fetch_orthogonal ends with
    os_pc, os_args, os_memories, os_vibe, os_tasks, os_outcomes, os_lambda_val, os_result,
    \* CascadeRouter.route: position, force_web, the graph result, the vector
    \* result, the searches issued so far, and the CascadeResult returned
    rt_pc, rt_force_web, rt_graph, rt_vector, rt_calls, rt_result,
    \* concurrent _write_entry calls: each call's position, entry and open file
    \* handle, and the log file they share
    wr_pc, wr_entry, wr_handle, wr_file

scorerVars == <<sc_pc, sc_items, sc_max_results, sc_mmr, sc_boosted, sc_ranked, sc_suggestions>>

combineVars == <<cr_pc, cr_results, cr_max_total, cr_combined>>

routerVars == <<rw_pc, rw_weights, rw_tasks, rw_outcomes, rw_results, rw_candidates, rw_result>>

graphVars == <<cg_pc, cg_anchors, cg_pending, cg_neighbors, cg_result>>

analyzeVars == <<an_pc, an_trace, an_weights, an_concepts, an_cascade, an_scored,
                 an_suggestions, an_log, an_response, an_feedback, an_start_time,
                 an_clock, an_processing_time>>

loggerVars == <<lg_pc, lg_file, lg_pairs>>

bridgeVars == <<bv_pc, bv_result, bv_centroids, bv_bridges, bv_writes>>

judgeVars == <<cj_pc, cj_app, cj_outcome, cj_result, cj_calls>>

orthVars == <<os_pc, os_args, os_memories, os_vibe, os_tasks, os_outcomes, os_lambda_val,
              os_result>>

routeVars == <<rt_pc, rt_force_web, rt_graph, rt_vector, rt_calls, rt_result>>

writerVars == <<wr_pc, wr_entry, wr_handle, wr_file>>

vars == <<scorerVars, combineVars, routerVars, graphVars, analyzeVars, loggerVars,
          bridgeVars, judgeVars, orthVars, routeVars, writerVars>>

(***************************************************************************)
(* Generic helpers                                                         *)
(***************************************************************************)
Min(a, b) == IF a <= b THEN a ELSE b

Max(a, b) == IF a >= b THEN a ELSE b

\* All sequences over S of length 0..n.
SeqsUpTo(S, n) == UNION {[1..k -> S] : k \in 0..n}

\* Python's s[:n] for n >= 0.
Take(s, n) == SubSeq(s, 1, Min(n, Len(s)))

\* The elements of a sequence.
Range(s) == {s[k] : k \in 1..Len(s)}

\* list.sort(key=..., reverse=True) / sorted(..., reverse=True): a stable sort,
\* descending by key[e]; of two elements with the same key the earlier stays
\* first.  key is a function on the elements of the sequence.
RECURSIVE InsertDesc(_, _, _)
InsertDesc(sorted, e, key) ==
    IF sorted = <<>> THEN <<e>>
    ELSE IF key[Head(sorted)] >= key[e]
         THEN <<Head(sorted)>> \o InsertDesc(Tail(sorted), e, key)
         ELSE <<e>> \o sorted

RECURSIVE SortDesc(_, _)
SortDesc(s, key) ==
    IF s = <<>> THEN <<>>
    ELSE InsertDesc(SortDesc(SubSeq(s, 1, Len(s) - 1), key), s[Len(s)], key)

(***************************************************************************)
(* models.py: Memory and SearchResult                                      *)
(***************************************************************************)
\* last_accessed = None, among ages that are whole numbers of days >= 0.
None == -1

\* A Memory.  last_accessed is None or the whole number of days since the
\* memory was last read, (now - item.last_accessed).days.
Memory(id, content, similarity, last_accessed) ==
    [kind |-> "Memory", id |-> id, content |-> content,
     similarity |-> similarity, last_accessed |-> last_accessed,
     relationships |-> <<>>]

SearchResult(url, score) ==
    [kind |-> "SearchResult", url |-> url, score |-> score]

IsMemory(item) == item.kind = "Memory"

(***************************************************************************)
(* retrieval/scoring.py: RetrievalScorer                                   *)
(***************************************************************************)
min_similarity == 650

max_similarity == 850

\* echo_penalty 0.5, sweet_spot_bonus 1.2 and the distant factor 0.8, in tenths:
\* a similarity in thousandths times a factor in tenths is a relevance in
\* ten-thousandths.
echo_penalty == 5

sweet_spot_bonus == 12

distant_factor == 8

One == 10000

echo_novelty == 2000

distant_novelty == 8000

min_sweet_novelty == 5000

\* floor(1000 * ln(d)) for the ages the model draws.
LnMilli(d) ==
    CASE d <= 1 -> 0
      [] d = 2 -> 693
      [] d = 3 -> 1098
      [] d = 7 -> 1945
      [] d = 30 -> 3401
      [] d = 400 -> 5991
      [] OTHER -> 5991

\* Mutant: the position-based similarity without its floor of 0.65.
ScoringSim_NoFloor(item, i) ==
    IF IsMemory(item) THEN item.similarity
    ELSE 850 - (i * 50)

\* The similarity the scorer uses for the item at 0-based list position i.
ScoringSim(item, i) ==
    IF IsMemory(item) THEN item.similarity
    ELSE Max(650, 850 - (i * 50))

\* Mutant: the echo band taken to include the ceiling itself.
InEchoBand_Inclusive(sim) == sim >= max_similarity

\* The echo-chamber test of apply_mmr_scoring.
InEchoBand(sim) == sim > max_similarity

\* Mutant: the sweet spot taken to exclude its floor.
InSweetBand_Exclusive(sim) == min_similarity < sim /\ sim <= max_similarity

InSweetBand(sim) == min_similarity <= sim /\ sim <= max_similarity

\* Mutant: novelty falling linearly from 1.0 to 0.5 across the whole band.
SweetNovelty_Linear(sim) ==
    LET raw == One - ((sim - min_similarity) * (One - min_sweet_novelty))
                         \div (max_similarity - min_similarity)
    IN Max(min_sweet_novelty, Min(One, raw))

\* Novelty of a sweet-spot item, clamped to [0.5, 1.0].
SweetNovelty(sim) ==
    LET raw == One - ((sim - min_similarity) * One) \div (max_similarity - min_similarity)
    IN Max(min_sweet_novelty, Min(One, raw))

\* Mutant: the relevance left without its normalisation to at most 1.0.
MmrRelevance_Unnormalized(sim) ==
    IF InEchoBand(sim) THEN sim * echo_penalty
    ELSE IF InSweetBand(sim) THEN sim * sweet_spot_bonus
    ELSE sim * distant_factor

\* relevance_score after normalisation to at most 1.0.
MmrRelevance(sim) ==
    LET rel == IF InEchoBand(sim) THEN sim * echo_penalty
               ELSE IF InSweetBand(sim) THEN sim * sweet_spot_bonus
               ELSE sim * distant_factor
    IN Min(One, rel)

\* Mutant: the novelty constants of the echo and distant bands exchanged.
MmrNovelty_Swapped(sim) ==
    IF InEchoBand(sim) THEN distant_novelty
    ELSE IF InSweetBand(sim) THEN SweetNovelty(sim)
    ELSE echo_novelty

MmrNovelty(sim) ==
    IF InEchoBand(sim) THEN echo_novelty
    ELSE IF InSweetBand(sim) THEN SweetNovelty(sim)
    ELSE distant_novelty

\* One tuple (item, final_score, relevance_score, novelty_score).  sim records the
\* similarity the scorer classified the item by.
ScoredTuple(item, score, relevance, novelty, sim) ==
    [item |-> item, score |-> score, relevance |-> relevance,
     novelty |-> novelty, sim |-> sim]

apply_mmr_scoring(items) ==
    [k \in 1..Len(items) |->
        LET sim == ScoringSim(items[k], k - 1)
        IN ScoredTuple(items[k], MmrRelevance(sim), MmrRelevance(sim),
                       MmrNovelty(sim), sim)]

\* Whether the temporal pass boosts the item.
HasTemporalBoost(item) == IsMemory(item) /\ item.last_accessed # None

\* novelty * (1 + log(max(days, 1)) / 10), at most 1.0.
BoostedNovelty(novelty, days) ==
    Min(One, (novelty * (10000 + LnMilli(Max(days, 1)))) \div 10000)

\* The final score leaves the temporal pass in units of 10^-7: the relevance in
\* ten-thousandths times (1 + ln d) in thousandths.
apply_temporal_boost(scored) ==
    [k \in 1..Len(scored) |->
        LET t == scored[k]
        IN IF HasTemporalBoost(t.item)
           THEN ScoredTuple(t.item,
                            t.score * (1000 + LnMilli(Max(t.item.last_accessed, 1))),
                            t.relevance,
                            BoostedNovelty(t.novelty, t.item.last_accessed),
                            t.sim)
           ELSE ScoredTuple(t.item, t.score * 1000, t.relevance, t.novelty, t.sim)]

\* Mutant: the filter lets a score of zero pass.
PositiveScore_OrZero(t) == t.score >= 0

\* `if score > 0` of filter_and_rank.
PositiveScore(t) == t.score > 0

filter_and_rank(items, max_results) ==
    LET scored == apply_mmr_scoring(items)
        boosted == apply_temporal_boost(scored)
        valid_items == SelectSeq(boosted, PositiveScore)
        sorted_items == SortDesc(valid_items, [t \in Range(valid_items) |-> t.score])
    IN Take(sorted_items, max_results)

(***************************************************************************)
(* synthesis/openai_client.py, models.py: Suggestion                       *)
(***************************************************************************)
\* Suggestion declares relevance_score and novelty_score with ge=0, le=1.
SuggestionValid(rel, nov) == 0 <= rel /\ rel <= One /\ 0 <= nov /\ nov <= One

\* synthesize_suggestion copies the two scores into the Suggestion on both the
\* LLM path and the fallback path.
synthesize_suggestion(t) ==
    [source |-> IF IsMemory(t.item) THEN "supermemory" ELSE "web_search",
     relevance_score |-> t.relevance,
     novelty_score |-> t.novelty,
     item |-> t.item]

(***************************************************************************)
(* retrieval/orthogonal_search.py: OrthogonalSearcher.combine_results      *)
(***************************************************************************)
OrthogonalResult(items, strategy) == [items |-> items, strategy |-> strategy]

\* One pass of the inner for loop over the strategies, from strategy i on: a
\* strategy that still has an item gives its next one while there is room.
RECURSIVE CombinePass(_, _, _, _)
CombinePass(orthogonal_results, max_total, st, i) ==
    IF i > Len(orthogonal_results) THEN st
    ELSE IF /\ st.indices[i] < Len(orthogonal_results[i].items)
            /\ Len(st.combined) < max_total
         THEN CombinePass(orthogonal_results, max_total,
                  [combined |-> Append(st.combined,
                                       orthogonal_results[i].items[st.indices[i] + 1]),
                   indices |-> [st.indices EXCEPT ![i] = @ + 1],
                   added_any |-> TRUE],
                  i + 1)
         ELSE CombinePass(orthogonal_results, max_total, st, i + 1)

\* The while loop: passes until max_total is reached or a pass adds nothing.
RECURSIVE CombineLoop(_, _, _)
CombineLoop(orthogonal_results, max_total, st) ==
    IF Len(st.combined) < max_total
    THEN LET after == CombinePass(orthogonal_results, max_total,
                                  [st EXCEPT !.added_any = FALSE], 1)
         IN IF after.added_any
            THEN CombineLoop(orthogonal_results, max_total, after)
            ELSE after.combined
    ELSE st.combined

\* Mutant: the strategies' lists concatenated in list order and cut, not
\* interleaved.
RECURSIVE ConcatItems(_)
ConcatItems(orthogonal_results) ==
    IF orthogonal_results = <<>> THEN <<>>
    ELSE Head(orthogonal_results).items \o ConcatItems(Tail(orthogonal_results))

combine_results_Concatenated(orthogonal_results, max_total) ==
    Take(ConcatItems(orthogonal_results), Max(max_total, 0))

\* The combined list (the first component of the returned tuple).
combine_results(orthogonal_results, max_total) ==
    CombineLoop(orthogonal_results, max_total,
                [combined |-> <<>>,
                 indices |-> [i \in 1..Len(orthogonal_results) |-> 0],
                 added_any |-> FALSE])

(***************************************************************************)
(* combine_results specification                                           *)
(***************************************************************************)
MaxStrategies == 3

MaxPerStrategy == 2

MaxTotal == 5

\* The web results a strategy may hold; equal results may occur twice.
CombineItems == {SearchResult(u, 800) : u \in 1..2}

StrategyNames == <<"noise_injection", "archetype_bridge", "cross_domain", "pca", "antonym", "bridge">>

StrategyName(i) == IF i <= Len(StrategyNames) THEN StrategyNames[i] ELSE "extra"

CombineIdle ==
    /\ cr_pc = "idle"
    /\ cr_results = <<>>
    /\ cr_max_total = 0
    /\ cr_combined = <<>>

CombineInit ==
    /\ cr_pc = "start"
    /\ \E n \in 0..MaxStrategies :
          \E lists \in [1..n -> SeqsUpTo(CombineItems, MaxPerStrategy)] :
              cr_results = [i \in 1..n |-> OrthogonalResult(lists[i], StrategyName(i))]
    /\ cr_max_total \in 0..MaxTotal
    /\ cr_combined = <<>>

CombineOnly == UNCHANGED <<scorerVars, routerVars, graphVars, analyzeVars, loggerVars, bridgeVars,
    judgeVars, orthVars,
    routeVars, writerVars>>

\* combined, _ = combine_results(results, max_total)
CombineResults ==
    /\ cr_pc = "start"
    /\ cr_combined' = combine_results(cr_results, cr_max_total)
    /\ cr_pc' = "done"
    /\ UNCHANGED <<cr_results, cr_max_total>>
    /\ CombineOnly

CombineNext == CombineResults


(***************************************************************************)
(* retrieval/cascade_router.py: ScoredCandidate, CascadeResult             *)
(***************************************************************************)
\* A Memory's content: its first 100 characters and the rest.
Content(head, tail) == [head |-> head, tail |-> tail]

\* content[:100]
First100(content) == content.head

StrategyWeights(serendipity, relevance, source_web, source_local) ==
    [serendipity |-> serendipity, relevance |-> relevance,
     source_web |-> source_web, source_local |-> source_local]

\* ScoredCandidate.__init__: the adjusted score starts as the raw score.
ScoredCandidate(item, source, strategy, raw_score) ==
    [item |-> item, source |-> source, strategy |-> strategy,
     raw_score |-> raw_score, adjusted_score |-> raw_score]

\* Mutant: orthogonal candidates are boosted by 1 + serendipity.
apply_weight_boost_SingleSerendipity(c, weights) ==
    LET by_source == IF c.source = "web" THEN c.raw_score * (100 + weights.source_web)
                     ELSE c.raw_score * (100 + weights.source_local)
        score == IF c.strategy = "orthogonal"
                 THEN by_source * (100 + weights.serendipity)
                 ELSE by_source * (100 + weights.relevance)
    IN [c EXCEPT !.adjusted_score = score]

\* ScoredCandidate.apply_weight_boost.
apply_weight_boost(c, weights) ==
    LET by_source == IF c.source = "web" THEN c.raw_score * (100 + weights.source_web)
                     ELSE IF c.source = "supermemory"
                          THEN c.raw_score * (100 + weights.source_local)
                          ELSE c.raw_score * 100
        score == IF c.strategy = "orthogonal"
                 THEN by_source * (100 + weights.serendipity * 2)
                 ELSE by_source * (100 + weights.relevance)
    IN [c EXCEPT !.adjusted_score = score]

CascadeResult(items, path, confidence) ==
    [items |-> items, path |-> path, confidence |-> confidence,
     graph_insight |-> FALSE, should_offer_web |-> FALSE]

max_suggestions == 3

(***************************************************************************)
(* retrieval/cascade_router.py: CascadeRouter.route_weighted               *)
(***************************************************************************)
base_fetch_count == 10

\* Mutant: the budget is rounded up.
FetchLimit_Ceiling(weight) ==
    IF weight > 10 THEN Max(1, (base_fetch_count * weight + 99) \div 100) ELSE 0

\* limit_web / limit_local from a weight in hundredths: int(10 * w) is w \div 10.
FetchLimit(weight) ==
    IF weight > 10 THEN Max(1, (base_fetch_count * weight) \div 100) ELSE 0

\* A dispatched coroutine with its task_metadata entry.
Task(name, source, strategy, limit) ==
    [name |-> name, source |-> source, strategy |-> strategy, limit |-> limit]

\* Mutant: the orthogonal fetch is given a budget of at least one.
OrthogonalLimit_AtLeastOne(limit_web, limit_local) == Max(1, Min(3, limit_web + limit_local))

\* limit=min(3, limit_web + limit_local) of the orthogonal fetch.
OrthogonalLimit(limit_web, limit_local) == Min(3, limit_web + limit_local)

\* tasks and task_metadata after the three dispatch tests, in dispatch order.
DispatchedTasks(weights) ==
    LET limit_web == FetchLimit(weights.source_web)
        limit_local == FetchLimit(weights.source_local)
    IN (IF weights.serendipity > 20
        THEN <<Task("orthogonal", "mixed", "orthogonal",
                    OrthogonalLimit(limit_web, limit_local))>>
        ELSE <<>>)
       \o (IF limit_local > 0
           THEN <<Task("local", "supermemory", "vector", limit_local)>>
           ELSE <<>>)
       \o (IF limit_web > 0
           THEN <<Task("web", "web", "vector", limit_web)>>
           ELSE <<>>)

\* What a call produced, as a Python value: a list, an exception or None.
PyList(items) == [tag |-> "list", items |-> items]

PyException == [tag |-> "exception", items |-> <<>>]

PyNone == [tag |-> "none", items |-> <<>>]

Pending == [tag |-> "pending", items |-> <<>>]

\* `x or []`
OrEmpty(value) == IF value.tag = "none" \/ value.items = <<>> THEN PyList(<<>>) ELSE value

\* Mutant: the except branch of a fetch lacks its `return []`.
FetchGuard_ReturnsNone(value) == IF value.tag = "exception" THEN PyNone ELSE value

\* The try/except of _fetch_orthogonal, _fetch_local and _fetch_web: an
\* exception of the inner call becomes the empty list.
FetchGuard(value) == IF value.tag = "exception" THEN PyList(<<>>) ELSE value

\* _fetch_local: supermemory.search(query, limit) and `memories or []`.
fetch_local(outcome) == FetchGuard(IF outcome.tag = "list" THEN OrEmpty(outcome) ELSE outcome)

\* _fetch_web: exa.search(query, num_results=limit), which returns
\* results[:num_results], and `results or []`.
fetch_web(outcome, limit) ==
    FetchGuard(IF outcome.tag = "list" THEN OrEmpty(PyList(Take(outcome.items, limit)))
               ELSE outcome)

\* num_results_per_strategy = max(1, limit // 3)
NumResultsPerStrategy(limit) == Max(1, limit \div 3)

\* _fetch_orthogonal: search_all_strategies, each strategy cut to
\* num_results_per_strategy, then combine_results(results, max_total=limit).
fetch_orthogonal(outcome, limit) ==
    FetchGuard(
        IF outcome.tag = "list"
        THEN IF outcome.items = <<>> THEN PyList(<<>>)
             ELSE PyList(combine_results(
                      [i \in 1..Len(outcome.items) |->
                          OrthogonalResult(Take(outcome.items[i].items,
                                                NumResultsPerStrategy(limit)),
                                           outcome.items[i].strategy)],
                      limit))
        ELSE outcome)

\* The value the task's coroutine ends with, given what its inner call did.
TaskValue(task, outcome) ==
    IF task.name = "orthogonal" THEN fetch_orthogonal(outcome, task.limit)
    ELSE IF task.name = "local" THEN fetch_local(outcome)
    ELSE fetch_web(outcome, task.limit)

\* asyncio.gather(*tasks, return_exceptions=True): an exception a coroutine
\* ends with is returned in its place.
GatherValue(value) == value

\* The raw score of an item.
RawScore(item) == IF IsMemory(item) THEN item.similarity ELSE item.score

\* Mutant: every candidate is tagged as a web result of the orthogonal search.
TagCandidates_AllOrthogonal(task, value) ==
    [k \in 1..Len(value.items) |->
        ScoredCandidate(value.items[k], "web", "orthogonal", RawScore(value.items[k]))]

\* The candidates of one gathered result, tagged with the task's metadata.
TagCandidates(task, value) ==
    [k \in 1..Len(value.items) |->
        ScoredCandidate(value.items[k],
                        IF task.source # "mixed" THEN task.source
                        ELSE IF IsMemory(value.items[k]) THEN "supermemory" ELSE "web",
                        task.strategy,
                        RawScore(value.items[k]))]

\* isinstance(result, Exception): the result is skipped.
SkippedResult(value) == value.tag = "exception"

\* The loop over the gathered results, from result i on.
RECURSIVE CollectCandidates(_, _, _)
CollectCandidates(tasks, results, i) ==
    IF i > Len(tasks) THEN <<>>
    ELSE (IF SkippedResult(results[i]) THEN <<>> ELSE TagCandidates(tasks[i], results[i]))
         \o CollectCandidates(tasks, results, i + 1)

\* `for item in result` over a result that is neither skipped nor a list raises.
CollectRaises(results) ==
    \E i \in 1..Len(results) : ~SkippedResult(results[i]) /\ results[i].tag # "list"

\* The content fingerprint of a candidate: both kinds of key are strings of
\* one set, seen_content.
ContentKey(c) ==
    IF IsMemory(c.item) THEN First100(c.item.content) ELSE c.item.url

\* Mutant: no deduplication.
Deduplicate_Nothing(candidates) == candidates

\* The seen_content loop: the first candidate of each fingerprint is kept.
Deduplicate(candidates) ==
    LET Keep(k) == \A j \in 1..(k - 1) : ContentKey(candidates[j]) # ContentKey(candidates[k])
        kept == {k \in 1..Len(candidates) : Keep(k)}
        Nth(n) == CHOOSE k \in kept : Cardinality({j \in kept : j < k}) = n - 1
    IN [n \in 1..Cardinality(kept) |-> candidates[Nth(n)]]

RECURSIVE SumAdjusted(_)
SumAdjusted(candidates) ==
    IF candidates = <<>> THEN 0
    ELSE Head(candidates).adjusted_score + SumAdjusted(Tail(candidates))

\* One adjusted-score unit: 1.0 is thousandths times hundredths times hundredths.
AdjustedOne == 10000000

\* Mutant: the confidence is taken from the best adjusted score alone.
WeightedConfidence_BestScore(top_candidates) ==
    IF top_candidates # <<>>
    THEN IF 2 * top_candidates[1].adjusted_score > 3 * AdjustedOne
         THEN "high"
         ELSE IF top_candidates[1].adjusted_score > AdjustedOne
              THEN "medium"
              ELSE "low"
    ELSE "low"

\* The confidence from the mean adjusted score of the top candidates.
WeightedConfidence(top_candidates) ==
    IF top_candidates # <<>>
    THEN IF 2 * SumAdjusted(top_candidates) > 3 * AdjustedOne * Len(top_candidates)
         THEN "high"
         ELSE IF SumAdjusted(top_candidates) > AdjustedOne * Len(top_candidates)
              THEN "medium"
              ELSE "low"
    ELSE "low"

\* Mutant: the boosted candidates are left in the order they were collected in.
RankCandidates_Unsorted(candidates, weights) ==
    [k \in 1..Len(candidates) |-> apply_weight_boost(candidates[k], weights)]

\* Steps 5 of route_weighted: boost, sort by adjusted score, descending.
RankCandidates(candidates, weights) ==
    LET boosted == [k \in 1..Len(candidates) |-> apply_weight_boost(candidates[k], weights)]
    IN SortDesc(boosted, [c \in Range(boosted) |-> c.adjusted_score])

\* unique_candidates[:max_suggestions]
TopCandidates(ranked) == Take(Deduplicate(ranked), max_suggestions)

(***************************************************************************)
(* route_weighted specification                                            *)
(***************************************************************************)
MaxFetch == 2

MaxOrthResults == 2

\* The weights drawn, in hundredths: serendipity at and above its threshold,
\* source weights below, at and above 0.1, among them the budgets 1, 2 and 9.
RouterWeights ==
    {StrategyWeights(s, r, w, l) :
        s \in {20, 90}, r \in {10}, w \in {10, 20, 90}, l \in {5, 15, 90}}

\* Memories the store may return: two share their first 100 characters, which
\* are also the text of URL 1.
RouterMemories ==
    {Memory(1, Content(1, 1), 900, None),
     Memory(2, Content(1, 2), 700, None),
     Memory(3, Content(3, 1), 600, None)}

\* Web results the search index may return.
RouterWebResults == {SearchResult(1, 900), SearchResult(2, 500)}

\* Web results the orthogonal strategies may return: URL 1 again with another
\* score, and a URL of their own.
RouterOrthResults == {SearchResult(1, 700), SearchResult(4, 950)}

\* What the inner call of a task may do.
TaskOutcomes(task) ==
    {PyException} \cup
    (IF task.name = "local"
     THEN {PyList(l) : l \in SeqsUpTo(RouterMemories, MaxFetch)}
     ELSE IF task.name = "web"
          THEN {PyList(l) : l \in SeqsUpTo(RouterWebResults, MaxFetch)}
          ELSE UNION {
                 {PyList([i \in 1..n |-> OrthogonalResult(lists[i], StrategyName(i))]) :
                      lists \in [1..n -> SeqsUpTo(RouterOrthResults, 1)]} :
                 n \in 0..MaxOrthResults})

EmptyResult == CascadeResult(<<>>, "none", "none")

RouterIdle ==
    /\ rw_pc = "idle"
    /\ rw_weights = StrategyWeights(0, 0, 0, 0)
    /\ rw_tasks = <<>>
    /\ rw_outcomes = <<>>
    /\ rw_results = <<>>
    /\ rw_candidates = <<>>
    /\ rw_result = EmptyResult

RouterInit ==
    /\ rw_pc = "start"
    /\ rw_weights \in RouterWeights
    /\ rw_tasks = <<>>
    /\ rw_outcomes = <<>>
    /\ rw_results = <<>>
    /\ rw_candidates = <<>>
    /\ rw_result = EmptyResult

RouterOnly == UNCHANGED <<scorerVars, combineVars, graphVars, analyzeVars, loggerVars, bridgeVars,
    judgeVars, orthVars,
    routeVars, writerVars>>

\* Steps 1-3 up to the gather: budgets, dispatch; without tasks the empty result.
RwDispatch ==
    /\ rw_pc = "start"
    /\ rw_tasks' = DispatchedTasks(rw_weights)
    /\ rw_outcomes' = [i \in 1..Len(rw_tasks') |-> Pending]
    /\ rw_results' = [i \in 1..Len(rw_tasks') |-> Pending]
    /\ IF rw_tasks' = <<>>
       THEN /\ rw_result' = CascadeResult(<<>>, "weighted", "low")
            /\ rw_pc' = "returned"
       ELSE /\ rw_result' = rw_result
            /\ rw_pc' = "gather"
    /\ UNCHANGED <<rw_weights, rw_candidates>>
    /\ RouterOnly

\* One dispatched coroutine runs to its end; the coroutines end in any order.
RwTaskEnds ==
    /\ rw_pc = "gather"
    /\ \E i \in 1..Len(rw_tasks) :
          /\ rw_results[i] = Pending
          /\ \E outcome \in TaskOutcomes(rw_tasks[i]) :
                /\ rw_outcomes' = [rw_outcomes EXCEPT ![i] = outcome]
                /\ rw_results' = [rw_results EXCEPT
                                     ![i] = GatherValue(TaskValue(rw_tasks[i], outcome))]
    /\ UNCHANGED <<rw_pc, rw_weights, rw_tasks, rw_candidates, rw_result>>
    /\ RouterOnly

\* Steps 4-7 once gather has every result: collect, boost, sort, deduplicate,
\* cut, confidence.
RwRank ==
    /\ rw_pc = "gather"
    /\ \A i \in 1..Len(rw_tasks) : rw_results[i] # Pending
    /\ IF CollectRaises(rw_results)
       THEN /\ rw_pc' = "raised"
            /\ UNCHANGED <<rw_candidates, rw_result>>
       ELSE LET candidates == CollectCandidates(rw_tasks, rw_results, 1)
                ranked == RankCandidates(candidates, rw_weights)
                top_candidates == TopCandidates(ranked)
            IN /\ rw_pc' = "returned"
               /\ rw_candidates' = ranked
               /\ rw_result' =
                     IF candidates = <<>>
                     THEN CascadeResult(<<>>, "weighted", "low")
                     ELSE CascadeResult([k \in 1..Len(top_candidates) |-> top_candidates[k].item],
                                        "weighted",
                                        WeightedConfidence(top_candidates))
    /\ UNCHANGED <<rw_weights, rw_tasks, rw_outcomes, rw_results>>
    /\ RouterOnly

RouterNext ==
    \/ RwDispatch
    \/ RwTaskEnds
    \/ RwRank

(***************************************************************************)
(* Scorer specification                                                    *)
(***************************************************************************)
MaxItems == 3

\* Similarities drawn for memories: below 0, 0, distant, the band edges, the
\* the sweet spot, the echo band and above 2.
ScorerSims == {-100, 0, 400, 650, 700, 750, 850, 950, 2200}

\* Ages in days drawn for memories with a last-accessed timestamp.
ScorerDays == {0, 400}

ScorerItems ==
    {Memory(0, <<>>, s, None) : s \in ScorerSims}
    \cup {Memory(0, <<>>, s, d) : s \in {400, 750, 850, 950}, d \in ScorerDays}
    \cup {SearchResult(0, 800)}

ScorerIdle ==
    /\ sc_pc = "idle"
    /\ sc_items = <<>>
    /\ sc_max_results = 0
    /\ sc_mmr = <<>>
    /\ sc_boosted = <<>>
    /\ sc_ranked = <<>>
    /\ sc_suggestions = <<>>

\* The scorer's steps leave the other components alone.
ScorerOnly == UNCHANGED <<combineVars, routerVars, graphVars, analyzeVars, loggerVars, bridgeVars,
    judgeVars, orthVars,
    routeVars, writerVars>>

ScorerInit ==
    /\ sc_pc = "start"
    /\ sc_items \in SeqsUpTo(ScorerItems, MaxItems)
    /\ sc_max_results = 3
    /\ sc_mmr = <<>>
    /\ sc_boosted = <<>>
    /\ sc_ranked = <<>>
    /\ sc_suggestions = <<>>

\* scorer.apply_mmr_scoring(items), as the tests call it.
ApplyMmrScoring ==
    /\ sc_pc = "start"
    /\ sc_mmr' = apply_mmr_scoring(sc_items)
    /\ sc_pc' = "mmr"
    /\ UNCHANGED <<sc_items, sc_max_results, sc_boosted, sc_ranked, sc_suggestions>>
    /\ ScorerOnly

\* scorer.filter_and_rank(items, max_results=3), as /analyze and /search-web call it.
FilterAndRank ==
    /\ sc_pc \in {"start", "mmr"}
    /\ sc_mmr' = apply_mmr_scoring(sc_items)
    /\ sc_boosted' = apply_temporal_boost(apply_mmr_scoring(sc_items))
    /\ sc_ranked' = filter_and_rank(sc_items, sc_max_results)
    /\ sc_pc' = "ranked"
    /\ UNCHANGED <<sc_items, sc_max_results, sc_suggestions>>
    /\ ScorerOnly

\* The endpoint's loop over scored_items: one Suggestion per ranked tuple.  A
\* score outside [0,1] fails the Suggestion's validation.
Synthesize ==
    /\ sc_pc = "ranked"
    /\ IF \A k \in 1..Len(sc_ranked) :
              SuggestionValid(sc_ranked[k].relevance, sc_ranked[k].novelty)
       THEN /\ sc_suggestions' = [k \in 1..Len(sc_ranked) |-> synthesize_suggestion(sc_ranked[k])]
            /\ sc_pc' = "responded"
       ELSE /\ sc_suggestions' = <<>>
            /\ sc_pc' = "http500"
    /\ UNCHANGED <<sc_items, sc_max_results, sc_mmr, sc_boosted, sc_ranked>>
    /\ ScorerOnly

\* A second set of inputs for the scorer: longer lists of fewer items, so that
\* web results stand at the positions 0 to 5, and max_results from 1 to 3.
MaxLongItems == 6

\* A web result, a memory of similarity 0, and a sweet-spot memory last
\* accessed 400 days ago.
ScorerLongItems ==
    {SearchResult(0, 800), Memory(0, <<>>, 0, None), Memory(0, <<>>, 750, 400)}

ScorerLongInit ==
    /\ sc_pc = "start"
    /\ sc_items \in SeqsUpTo(ScorerLongItems, MaxLongItems)
    /\ sc_max_results \in 1..3
    /\ sc_mmr = <<>>
    /\ sc_boosted = <<>>
    /\ sc_ranked = <<>>
    /\ sc_suggestions = <<>>

ScorerNext ==
    \/ ApplyMmrScoring
    \/ FilterAndRank
    \/ Synthesize


(***************************************************************************)
(* retrieval/cascade_router.py: _check_graph, with                         *)
(* retrieval/supermemory.py: search and get_related                        *)
(***************************************************************************)
\* A Memory as SupermemoryClient.search builds it: last_accessed is None and
\* relationships holds the relation types of its parents and children.
SearchedMemory(id, similarity, relationships) ==
    [Memory(id, Content(id, 1), similarity, None) EXCEPT !.relationships = relationships]

\* settings.max_anchors
max_anchors == 5

\* The anchors with similarity >= settings.max_similarity_threshold.
echo_chamber_anchors(anchors) ==
    SelectSeq(anchors, LAMBDA a : a.similarity >= max_similarity)

\* The anchors with min threshold <= similarity < max threshold.
sweet_spot_anchors(anchors) ==
    SelectSeq(anchors, LAMBDA a : min_similarity <= a.similarity /\ a.similarity < max_similarity)

\* The anchors get_related is called for, in the order of the calls: the first
\* three echo anchors, then the sweet-spot anchors that have relationships.
PivotAnchors(anchors) ==
    Take(echo_chamber_anchors(anchors), 3)
    \o SelectSeq(sweet_spot_anchors(anchors), LAMBDA a : a.relationships # <<>>)

\* rel.get("type", "").replace("child_", "")
RelType(rel) ==
    CASE rel = "child_derives" -> "derives"
      [] rel = "child_extends" -> "extends"
      [] OTHER -> rel

\* relationship_types=["derives", "extends", "contrast"]
PivotRelationshipTypes == {"derives", "extends", "contrast"}

HasRequestedRelationship(mem) ==
    \E k \in 1..Len(mem.relationships) : RelType(mem.relationships[k]) \in PivotRelationshipTypes

\* get_related, given what its search for the anchor's content returned: the
\* memories with one of the requested relationship types, in order.
get_related(related) == SelectSeq(related, HasRequestedRelationship)

\* Deduplicate by ID: the first candidate of each id stays.
UniqueById(candidates) ==
    SelectSeq([k \in 1..Len(candidates) |-> [pos |-> k, c |-> candidates[k]]],
              LAMBDA e : \A j \in 1..(e.pos - 1) : candidates[j].id # e.c.id)

\* The tail of _check_graph once the neighbours are gathered: candidates,
\* deduplication, doughnut scoring; None when nothing is left.
GraphResult(anchors, neighbors) ==
    LET all_candidates == sweet_spot_anchors(anchors) \o neighbors
        unique == UniqueById(all_candidates)
        unique_candidates == [k \in 1..Len(unique) |-> unique[k].c]
        scored == filter_and_rank(unique_candidates, max_suggestions)
    IN IF all_candidates = <<>> \/ scored = <<>> THEN PyNone
       ELSE PyList([k \in 1..Len(scored) |-> scored[k].item])

\* Bounds of the graph specification: anchors per search, and memories returned
\* by the searches of get_related over one request.
MaxAnchors == 2

MaxNeighbours == 2

\* Anchors the store may return for the query: distant, sweet spot, the
\* ceiling and the echo band, with and without relationships; the id of an
\* anchor is its position in the response.
GraphAnchorSims == {600, 700, 850, 900}

GraphAnchorRelationships == {<<>>, <<"extends">>}

GraphAnchorSets ==
    UNION {{[k \in 1..n |-> SearchedMemory(k, sims[k], rels[k])] :
               sims \in [1..n -> GraphAnchorSims],
               rels \in [1..n -> GraphAnchorRelationships]} :
           n \in 0..Min(MaxAnchors, max_anchors)}

\* Memories a search for an anchor's content may return: any memory of the
\* store, the anchor included, with its similarity to that content.
GraphNeighbours ==
    {SearchedMemory(id, s, r) : id \in 1..3, s \in {700, 900},
                                r \in {<<"child_derives">>, <<"updates">>}}

GraphIdle ==
    /\ cg_pc = "idle"
    /\ cg_anchors = <<>>
    /\ cg_pending = <<>>
    /\ cg_neighbors = <<>>
    /\ cg_result = PyNone

GraphInit ==
    /\ cg_pc = "start"
    /\ cg_anchors \in GraphAnchorSets
    /\ cg_pending = <<>>
    /\ cg_neighbors = <<>>
    /\ cg_result = PyNone

GraphOnly == UNCHANGED <<scorerVars, combineVars, routerVars, analyzeVars, loggerVars, bridgeVars,
    judgeVars, orthVars,
    routeVars, writerVars>>

\* anchors = await supermemory.search(...); without anchors the result is None.
CgSearch ==
    /\ cg_pc = "start"
    /\ IF cg_anchors = <<>>
       THEN cg_pc' = "returned" /\ cg_pending' = <<>>
       ELSE cg_pc' = "pivot" /\ cg_pending' = PivotAnchors(cg_anchors)
    /\ UNCHANGED <<cg_anchors, cg_neighbors, cg_result>>
    /\ GraphOnly

\* One get_related call: the search for the anchor's content returns `related`
\* and the filter runs; a failed get_memory or search gives [], as an empty
\* response does.
CgGetRelated ==
    /\ cg_pc = "pivot"
    /\ cg_pending # <<>>
    /\ \E related \in SeqsUpTo(GraphNeighbours, MaxNeighbours - Len(cg_neighbors)) :
          cg_neighbors' = cg_neighbors \o get_related(related)
    /\ cg_pending' = Tail(cg_pending)
    /\ UNCHANGED <<cg_pc, cg_anchors, cg_result>>
    /\ GraphOnly

\* Candidates, deduplication, filter_and_rank, the return value.
CgRank ==
    /\ cg_pc = "pivot"
    /\ cg_pending = <<>>
    /\ cg_result' = GraphResult(cg_anchors, cg_neighbors)
    /\ cg_pc' = "returned"
    /\ UNCHANGED <<cg_anchors, cg_pending, cg_neighbors>>
    /\ GraphOnly

GraphNext ==
    \/ CgSearch
    \/ CgGetRelated
    \/ CgRank


(***************************************************************************)
(* retrieval/judge_logger.py: JudgeLogger                                  *)
(***************************************************************************)
\* The entry log_decision writes.
DecisionEntry(request_id, weights, insight_ids, retrieval_path) ==
    [type |-> "decision", request_id |-> request_id, weights |-> weights,
     insight_ids |-> insight_ids, retrieval_path |-> retrieval_path]

\* The entry log_feedback writes.
FeedbackEntry(request_id, insight_id, signal) ==
    [type |-> "feedback", request_id |-> request_id, insight_id |-> insight_id,
     signal |-> signal]

\* What a write did: the file afterwards and whether the call raised.
WriteOutcome(file, raised) == [file |-> file, raised |-> raised]

\* Mutant: the except branch of _write_entry re-raises.
WriteGuard_Reraise(outcome) == outcome

\* The try/except of _write_entry: the error of a failed write is printed and
\* swallowed.
WriteGuard(outcome) == [outcome EXCEPT !.raised = FALSE]

\* _write_entry: the entry is appended as one line, or opening or writing the
\* file fails and the file stays as it was.
\* Mutant: a successful write leaves the line twice.
write_entry_Twice(file, entry, ok) ==
    IF ok THEN WriteOutcome(Append(Append(file, entry), entry), FALSE)
    ELSE WriteGuard(WriteOutcome(file, TRUE))

write_entry(file, entry, ok) ==
    IF ok THEN WriteOutcome(Append(file, entry), FALSE)
    ELSE WriteGuard(WriteOutcome(file, TRUE))

\* The request ids of the decision entries of a file, each once, in the order
\* of their first decision: the keys of the `decisions` dict.
RECURSIVE DecisionIds(_)
DecisionIds(file) ==
    IF file = <<>> THEN <<>>
    ELSE LET before == DecisionIds(SubSeq(file, 1, Len(file) - 1))
             last == file[Len(file)]
         IN IF last.type = "decision" /\ last.request_id \notin Range(before)
            THEN Append(before, last.request_id)
            ELSE before

\* decisions[request_id]: the last decision entry of the file with that id.
DecisionFor(file, request_id) ==
    LET at == {k \in 1..Len(file) :
                  file[k].type = "decision" /\ file[k].request_id = request_id}
    IN file[CHOOSE k \in at : \A j \in at : j <= k]

\* Mutant: only the latest feedback of a request is kept.
FeedbackFor_Latest(file, request_id) ==
    LET fb == SelectSeq(file, LAMBDA e : e.type = "feedback" /\ e.request_id = request_id)
    IN IF fb = <<>> THEN <<>> ELSE <<fb[Len(fb)]>>

\* feedback.get(request_id, []): the feedback entries of the file with that id,
\* in file order.
FeedbackFor(file, request_id) ==
    SelectSeq(file, LAMBDA e : e.type = "feedback" /\ e.request_id = request_id)

\* get_decision_feedback_pairs over the entries read_training_data returns.
get_decision_feedback_pairs(file) ==
    LET ids == DecisionIds(file)
    IN [k \in 1..Len(ids) |->
           [decision |-> DecisionFor(file, ids[k]), feedback |-> FeedbackFor(file, ids[k])]]

\* Bound of the logger specification: lines in the log file.
MaxLogEntries == 3

\* Request ids of the logged records; two requests may carry the same id.
LogRequestIds == {"r1", "r2"}

\* Decisions differ by their weights, feedback by the insight it is about.
LogDecisions ==
    {DecisionEntry(r, w, 1, "weighted") :
        r \in LogRequestIds,
        w \in {StrategyWeights(90, 10, 90, 5), StrategyWeights(45, 55, 65, 45)}}

LogFeedback == {FeedbackEntry(r, i, "click") : r \in LogRequestIds, i \in 1..2}

LoggerIdle ==
    /\ lg_pc = "idle"
    /\ lg_file = <<>>
    /\ lg_pairs = <<>>

LoggerInit ==
    /\ lg_pc = "logging"
    /\ lg_file = <<>>
    /\ lg_pairs = <<>>

LoggerOnly == UNCHANGED <<scorerVars, combineVars, routerVars, graphVars, analyzeVars, bridgeVars,
    judgeVars, orthVars,
    routeVars, writerVars>>

\* log_decision: the entry is written, or the write fails and is swallowed.
LgLogDecision ==
    /\ lg_pc = "logging"
    /\ Len(lg_file) < MaxLogEntries
    /\ \E entry \in LogDecisions, ok \in BOOLEAN :
          lg_file' = write_entry(lg_file, entry, ok).file
    /\ UNCHANGED <<lg_pc, lg_pairs>>
    /\ LoggerOnly

\* log_feedback: the entry is written, or the write fails and is swallowed.
LgLogFeedback ==
    /\ lg_pc = "logging"
    /\ Len(lg_file) < MaxLogEntries
    /\ \E entry \in LogFeedback, ok \in BOOLEAN :
          lg_file' = write_entry(lg_file, entry, ok).file
    /\ UNCHANGED <<lg_pc, lg_pairs>>
    /\ LoggerOnly

\* A training script reads the pairs.
LgGetPairs ==
    /\ lg_pc = "logging"
    /\ lg_pairs' = get_decision_feedback_pairs(lg_file)
    /\ lg_pc' = "read"
    /\ UNCHANGED lg_file
    /\ LoggerOnly

LoggerNext ==
    \/ LgLogDecision
    \/ LgLogFeedback
    \/ LgGetPairs

(***************************************************************************)
(* retrieval/vector_math.py: OrthogonalVectorMath, the bridge-vector cache *)
(***************************************************************************)
\* Bounds of the bridge specification: the domains of DOMAIN_ANCHORS taken
\* (the table has five), and the concurrent callers.
NumDomains == 3

MaxCallers == 2

Domains == 1..NumDomains

Callers == 1..MaxCallers

\* An attribute that is still None.
NoTable == [init |-> FALSE, keys |-> {}]

\* A dict with the given keys; a centroid and a bridge vector are functions of
\* their keys, the embeddings of the anchors being fixed.
Table(keys) == [init |-> TRUE, keys |-> keys]

\* The pairwise loop over the centroids: a bridge for every ordered pair of
\* distinct domains that have a centroid.
BridgePairs(centroids) ==
    {<<d1, d2>> : d1 \in centroids.keys, d2 \in centroids.keys} \ {<<d, d>> : d \in Domains}

\* A caller's position: at the start, awaiting the anchors of domain k,
\* awaiting the embedding of the content, returned or raised.
Position(at, k) == [at |-> at, k |-> k]

BridgeIdle ==
    /\ bv_pc = <<>>
    /\ bv_result = <<>>
    /\ bv_centroids = NoTable
    /\ bv_bridges = NoTable
    /\ bv_writes = [centroids |-> 0, bridges |-> 0]

\* OrthogonalVectorMath.__init__: both attributes None.
BridgeInit ==
    /\ bv_pc = [c \in Callers |-> Position("start", 0)]
    /\ bv_result = [c \in Callers |-> NoTable]
    /\ bv_centroids = NoTable
    /\ bv_bridges = NoTable
    /\ bv_writes = [centroids |-> 0, bridges |-> 0]

BridgeOnly ==
    UNCHANGED <<scorerVars, combineVars, routerVars, graphVars, analyzeVars, loggerVars, judgeVars,
                orthVars,
    routeVars, writerVars>>

\* compute_bridge_vectors up to its first await: the cached table is returned,
\* or the centroid table is set to a new empty dict and the anchors of the
\* first domain are sent for embedding.
BvEnter(c) ==
    /\ bv_pc[c].at = "start"
    /\ IF bv_bridges.init
       THEN /\ bv_result' = [bv_result EXCEPT ![c] = bv_bridges]
            /\ bv_pc' = [bv_pc EXCEPT ![c] = Position("content", 0)]
            /\ UNCHANGED <<bv_centroids, bv_writes>>
       ELSE /\ bv_centroids' = Table({})
            /\ bv_writes' = [bv_writes EXCEPT !.centroids = @ + 1]
            /\ bv_pc' = [bv_pc EXCEPT ![c] = Position("anchors", 1)]
            /\ UNCHANGED bv_result
    /\ UNCHANGED bv_bridges
    /\ BridgeOnly

\* The embeddings of the anchors of domain k arrive, or the call raises: the
\* centroid is stored in the current centroid table; after the last domain
\* the bridge table is set to a new dict, filled from the centroid table and
\* returned, all without another await.
BvEmbedded(c) ==
    /\ bv_pc[c].at = "anchors"
    /\ \E ok \in BOOLEAN :
          IF ~ok
          THEN /\ bv_pc' = [bv_pc EXCEPT ![c] = Position("raised", 0)]
               /\ UNCHANGED <<bv_result, bv_centroids, bv_bridges, bv_writes>>
          ELSE LET k == bv_pc[c].k
                   centroids == Table(bv_centroids.keys \cup {k})
               IN /\ bv_centroids' = centroids
                  /\ IF k < NumDomains
                     THEN /\ bv_pc' = [bv_pc EXCEPT ![c] = Position("anchors", k + 1)]
                          /\ UNCHANGED <<bv_result, bv_bridges, bv_writes>>
                     ELSE /\ bv_bridges' = Table(BridgePairs(centroids))
                          /\ bv_writes' = [bv_writes EXCEPT !.bridges = @ + 1]
                          /\ bv_result' = [bv_result EXCEPT ![c] = bv_bridges']
                          /\ bv_pc' = [bv_pc EXCEPT ![c] = Position("content", 0)]
    /\ BridgeOnly

\* bridge_vector_search after compute_bridge_vectors returned: the embedding of
\* the content arrives and the bridge is looked up in the table held, or the
\* embedding call raises.
BvSearch(c) ==
    /\ bv_pc[c].at = "content"
    /\ \E ok \in BOOLEAN :
          bv_pc' = [bv_pc EXCEPT ![c] = Position(IF ok THEN "returned" ELSE "raised", 0)]
    /\ UNCHANGED <<bv_result, bv_centroids, bv_bridges, bv_writes>>
    /\ BridgeOnly

BridgeNext == \E c \in Callers : BvEnter(c) \/ BvEmbedded(c) \/ BvSearch(c)

(***************************************************************************)
(* main.py: analyze_context, the /analyze endpoint                         *)
(***************************************************************************)
\* Mutant: the concepts are extracted before the judge runs.
AnNextStep_ConceptsFirst(step) ==
    CASE step = "start" -> "concepts"
      [] step = "concepts" -> "judge"
      [] step = "judge" -> "routing"
      [] step = "routing" -> "scoring"
      [] step = "scoring" -> "synthesis"
      [] step = "synthesis" -> "logging"
      [] OTHER -> "response"

\* The statement order of the try block: Step 0 the Context Judge, Step 1 the
\* concept extraction, Step 3 route_weighted, Step 4 filter_and_rank and the
\* synthesis loop, Step 5 log_decision, then the response.
\* Mutant: the decision is logged before the synthesis.
AnNextStep_LogBeforeSynthesis(step) ==
    CASE step = "start" -> "judge"
      [] step = "judge" -> "concepts"
      [] step = "concepts" -> "routing"
      [] step = "routing" -> "scoring"
      [] step = "scoring" -> "logging"
      [] step = "logging" -> "synthesis"
      [] OTHER -> "response"

AnNextStep(step) ==
    CASE step = "start" -> "judge"
      [] step = "judge" -> "concepts"
      [] step = "concepts" -> "routing"
      [] step = "routing" -> "scoring"
      [] step = "scoring" -> "synthesis"
      [] step = "synthesis" -> "logging"
      [] OTHER -> "response"

\* A position of the handler: the step and whether it is about to be called,
\* awaited, or the handler is over.
At(step, phase) == <<step, phase>>

\* An event of the request's trace.
Event(step, phase) == <<step, phase>>

\* AnalyzeResponse
AnalyzeResponse(status, suggestions, processing_time_ms, retrieval_path, confidence) ==
    [status |-> status, suggestions |-> suggestions,
     processing_time_ms |-> processing_time_ms,
     retrieval_path |-> retrieval_path, confidence |-> confidence]

NoResponse == AnalyzeResponse("none", <<>>, None, "none", "none")

\* raise HTTPException(status_code=500, ...), which carries no response body.
Http500 == AnalyzeResponse("http500", <<>>, None, "none", "none")

\* int((time.time() - start_time) * 1000), the clock counted in milliseconds.
ProcessingTimeMs(start_time, now) == now - start_time

\* Mutant: the empty-list test never succeeds.
IsEmptyList_Never(list) == FALSE

\* `not concepts`, `not cascade_result.items`: the list is empty.
IsEmptyList(list) == list = <<>>

\* request_id = str(uuid.uuid4())[:8], the id of the one request modelled.
AnRequestId == "r1"

\* Bounds of the analyze specification: concepts the extraction returns, and
\* /feedback requests that follow the response.
MaxConcepts == 2

MaxFeedback == 1

\* Bounds of the clock: milliseconds an await may take, and the last reading.
MaxTick == 1

MaxClock == 3

\* What the judge may return: parsed weights, or the browser fallback.
AnalyzeWeights == {StrategyWeights(90, 10, 90, 5), StrategyWeights(45, 55, 65, 45)}

AnalyzeConcepts == {"c1", "c2"}

\* What route_weighted may return: no items with confidence low, or up to
\* max_suggestions ranked items; a memory of similarity 0 scores 0, and one
\* of similarity 2.2 lies above the range of similarities.
AnalyzeCascadeResults ==
    {CascadeResult(<<>>, "weighted", "low"),
     CascadeResult(<<Memory(1, Content(1, 1), 0, None)>>, "weighted", "low"),
     CascadeResult(<<Memory(1, Content(1, 1), 750, None)>>, "weighted", "medium"),
     CascadeResult(<<SearchResult(1, 900), Memory(2, Content(2, 1), 900, None)>>,
                   "weighted", "high"),
     CascadeResult(<<Memory(1, Content(1, 1), 2200, None)>>, "weighted", "high"),
     CascadeResult(<<Memory(1, Content(1, 1), 700, None), SearchResult(2, 500),
                     Memory(3, Content(3, 1), 950, None)>>, "weighted", "high")}

AnalyzeIdle ==
    /\ an_pc = At("idle", "done")
    /\ an_trace = <<>>
    /\ an_weights = StrategyWeights(0, 0, 0, 0)
    /\ an_concepts = <<>>
    /\ an_cascade = EmptyResult
    /\ an_scored = <<>>
    /\ an_suggestions = <<>>
    /\ an_log = <<>>
    /\ an_response = NoResponse
    /\ an_feedback = <<>>
    /\ an_start_time = 0
    /\ an_clock = 0
    /\ an_processing_time = None

AnalyzeInit ==
    /\ an_pc = At(AnNextStep("start"), "call")
    /\ an_trace = <<>>
    /\ an_weights = StrategyWeights(0, 0, 0, 0)
    /\ an_concepts = <<>>
    /\ an_cascade = EmptyResult
    /\ an_scored = <<>>
    /\ an_suggestions = <<>>
    /\ an_log = <<>>
    /\ an_response = NoResponse
    /\ an_feedback = <<>>
    /\ an_start_time \in 0..1
    /\ an_clock = an_start_time
    /\ an_processing_time = None

AnalyzeOnly == UNCHANGED <<scorerVars, combineVars, routerVars, graphVars, loggerVars, bridgeVars,
    judgeVars, orthVars,
    routeVars, writerVars>>

\* time.time() while the handler awaits: the clock has moved on by up to
\* MaxTick milliseconds, and never past MaxClock.
Tick == \E dt \in 0..MaxTick : an_clock' = Min(an_clock + dt, MaxClock)

\* The trace once the handler has built its AnalyzeResponse, if it has.
Returned(trace, responded) ==
    IF responded THEN Append(trace, Event("response", "assembled")) ELSE trace

\* What _write_entry did with the entry by the time log_decision returned.
WriteEvent(ok) == Event("logging", IF ok THEN "written" ELSE "failed")

\* The position after the step that just finished.
AnAfter(step) == At(AnNextStep(step), "call")

\* weights = await context_judge.analyze(...): the call.
AnJudgeCall ==
    /\ an_pc = At("judge", "call")
    /\ an_trace' = Append(an_trace, Event("judge", "begin"))
    /\ an_pc' = At("judge", "await")
    /\ UNCHANGED <<an_weights, an_concepts, an_cascade, an_scored, an_suggestions,
                   an_log, an_response, an_feedback>>
    /\ UNCHANGED <<an_start_time, an_clock, an_processing_time>>
    /\ AnalyzeOnly

\* The judge returns weights: parsed ones, or its fallback when the LLM fails.
AnJudgeReturn ==
    /\ an_pc = At("judge", "await")
    /\ an_weights' \in AnalyzeWeights
    /\ an_trace' = Append(an_trace, Event("judge", "end"))
    /\ an_pc' = AnAfter("judge")
    /\ UNCHANGED <<an_concepts, an_cascade, an_scored, an_suggestions, an_log, an_response, an_feedback>>
    /\ Tick
    /\ UNCHANGED <<an_start_time, an_processing_time>>
    /\ AnalyzeOnly

\* concepts = await synthesizer.extract_concepts(...): the call.
AnConceptsCall ==
    /\ an_pc = At("concepts", "call")
    /\ an_trace' = Append(an_trace, Event("concepts", "begin"))
    /\ an_pc' = At("concepts", "await")
    /\ UNCHANGED <<an_weights, an_concepts, an_cascade, an_scored, an_suggestions,
                   an_log, an_response, an_feedback>>
    /\ UNCHANGED <<an_start_time, an_clock, an_processing_time>>
    /\ AnalyzeOnly

\* The extraction returns; without concepts the handler returns no suggestions.
AnConceptsReturn ==
    /\ an_pc = At("concepts", "await")
    /\ Tick
    /\ \E concepts \in SeqsUpTo(AnalyzeConcepts, MaxConcepts) :
          /\ an_concepts' = concepts
          /\ IF IsEmptyList(concepts)
             THEN /\ an_pc' = At("response", "done")
                  /\ an_response' = AnalyzeResponse("ok", <<>>,
                                        ProcessingTimeMs(an_start_time, an_clock'),
                                        "none", "none")
             ELSE /\ an_pc' = AnAfter("concepts")
                  /\ UNCHANGED an_response
          /\ an_trace' = Returned(Append(an_trace, Event("concepts", "end")),
                                  IsEmptyList(concepts))
    /\ UNCHANGED <<an_weights, an_cascade, an_scored, an_suggestions, an_log, an_feedback>>
    /\ UNCHANGED <<an_start_time, an_processing_time>>
    /\ AnalyzeOnly

\* cascade_result = await cascade_router.route_weighted(...): the call.
AnRouteCall ==
    /\ an_pc = At("routing", "call")
    /\ an_trace' = Append(an_trace, Event("routing", "begin"))
    /\ an_pc' = At("routing", "await")
    /\ UNCHANGED <<an_weights, an_concepts, an_cascade, an_scored, an_suggestions,
                   an_log, an_response, an_feedback>>
    /\ UNCHANGED <<an_start_time, an_clock, an_processing_time>>
    /\ AnalyzeOnly

\* The route returns; without items the handler returns no suggestions, with
\* the path and the confidence of the route.
AnRouteReturn ==
    /\ an_pc = At("routing", "await")
    /\ Tick
    /\ \E result \in AnalyzeCascadeResults :
          /\ an_cascade' = result
          /\ IF IsEmptyList(result.items)
             THEN /\ an_pc' = At("response", "done")
                  /\ an_response' = AnalyzeResponse("ok", <<>>,
                                        ProcessingTimeMs(an_start_time, an_clock'),
                                        result.path, result.confidence)
             ELSE /\ an_pc' = AnAfter("routing")
                  /\ UNCHANGED an_response
          /\ an_trace' = Returned(Append(an_trace, Event("routing", "end")),
                                  IsEmptyList(result.items))
    /\ UNCHANGED <<an_weights, an_concepts, an_scored, an_suggestions, an_log, an_feedback>>
    /\ UNCHANGED <<an_start_time, an_processing_time>>
    /\ AnalyzeOnly

\* scored_items = scorer.filter_and_rank(cascade_result.items, max_results=3), a
\* synchronous call; the loop that follows runs once per scored item.
AnScore ==
    /\ an_pc = At("scoring", "call")
    /\ an_scored' = filter_and_rank(an_cascade.items, 3)
    /\ an_trace' = an_trace \o <<Event("scoring", "begin"), Event("scoring", "end")>>
    /\ an_pc' = IF an_scored' = <<>> THEN AnAfter(AnNextStep("scoring")) ELSE AnAfter("scoring")
    /\ UNCHANGED <<an_weights, an_concepts, an_cascade, an_suggestions, an_log, an_response, an_feedback>>
    /\ UNCHANGED <<an_start_time, an_clock, an_processing_time>>
    /\ AnalyzeOnly

\* await synthesizer.synthesize_suggestion(...) for the next scored item: the call.
AnSynthCall ==
    /\ an_pc = At("synthesis", "call")
    /\ an_trace' = Append(an_trace, Event("synthesis", "begin"))
    /\ an_pc' = At("synthesis", "await")
    /\ UNCHANGED <<an_weights, an_concepts, an_cascade, an_scored, an_suggestions,
                   an_log, an_response, an_feedback>>
    /\ UNCHANGED <<an_start_time, an_clock, an_processing_time>>
    /\ AnalyzeOnly

\* The synthesis returns a Suggestion, which is appended; scores the Suggestion
\* rejects raise, and the handler answers with HTTP 500.
AnSynthReturn ==
    /\ an_pc = At("synthesis", "await")
    /\ LET t == an_scored[Len(an_suggestions) + 1]
       IN IF SuggestionValid(t.relevance, t.novelty)
          THEN /\ an_suggestions' = Append(an_suggestions, synthesize_suggestion(t))
               /\ an_pc' = IF Len(an_suggestions') < Len(an_scored)
                           THEN At("synthesis", "call")
                           ELSE AnAfter("synthesis")
               /\ UNCHANGED an_response
          ELSE /\ an_pc' = At("response", "done")
               /\ an_response' = Http500
               /\ UNCHANGED an_suggestions
    /\ an_trace' = Append(an_trace, Event("synthesis", "end"))
    /\ UNCHANGED <<an_weights, an_concepts, an_cascade, an_scored, an_log, an_feedback>>
    /\ Tick
    /\ UNCHANGED <<an_start_time, an_processing_time>>
    /\ AnalyzeOnly

\* await judge_logger.log_decision(...): the call.
AnLogCall ==
    /\ an_pc = At("logging", "call")
    /\ an_trace' = Append(an_trace, Event("logging", "begin"))
    /\ an_pc' = At("logging", "await")
    /\ UNCHANGED <<an_weights, an_concepts, an_cascade, an_scored, an_suggestions,
                   an_log, an_response, an_feedback>>
    /\ an_processing_time' = ProcessingTimeMs(an_start_time, an_clock)
    /\ UNCHANGED <<an_start_time, an_clock>>
    /\ AnalyzeOnly

\* log_decision returns, the entry written or the write error swallowed, and
\* the handler builds the AnalyzeResponse and returns it; an exception of log_decision would
\* reach the handler's except branch, which answers with HTTP 500.
AnLogReturn ==
    /\ an_pc = At("logging", "await")
    /\ \E ok \in BOOLEAN :
          LET w == write_entry(an_log,
                               DecisionEntry(AnRequestId, an_weights,
                                             Len(an_suggestions), an_cascade.path),
                               ok)
          IN /\ an_log' = w.file
             /\ an_response' = IF w.raised
                               THEN Http500
                               ELSE AnalyzeResponse("ok", an_suggestions,
                                                    an_processing_time,
                                                    an_cascade.path,
                                                    an_cascade.confidence)
             /\ an_trace' = Returned(an_trace \o <<Event("logging", "end"),
                                                   WriteEvent(ok)>>,
                                     ~w.raised)
    /\ an_pc' = At("response", "done")
    /\ UNCHANGED <<an_weights, an_concepts, an_cascade, an_scored, an_suggestions,
                   an_feedback>>
    /\ Tick
    /\ UNCHANGED <<an_start_time, an_processing_time>>
    /\ AnalyzeOnly

\* POST /feedback on one of the suggestions of the response: log_feedback,
\* answered "logged", or "error" when log_feedback raises.
AnFeedback ==
    /\ an_pc = At("response", "done")
    /\ an_response.status = "ok"
    /\ Len(an_feedback) < MaxFeedback
    /\ \E ok \in BOOLEAN, insight \in 1..Len(an_response.suggestions) :
          LET w == write_entry(an_log, FeedbackEntry(AnRequestId, insight, "click"), ok)
          IN /\ an_log' = w.file
             /\ an_feedback' = Append(an_feedback, IF w.raised THEN "error" ELSE "logged")
    /\ UNCHANGED <<an_pc, an_trace, an_weights, an_concepts, an_cascade, an_scored,
                   an_suggestions, an_response>>
    /\ UNCHANGED <<an_start_time, an_clock, an_processing_time>>
    /\ AnalyzeOnly

AnalyzeNext ==
    \/ AnJudgeCall
    \/ AnJudgeReturn
    \/ AnConceptsCall
    \/ AnConceptsReturn
    \/ AnRouteCall
    \/ AnRouteReturn
    \/ AnScore
    \/ AnSynthCall
    \/ AnSynthReturn
    \/ AnLogCall
    \/ AnLogReturn
    \/ AnFeedback


(***************************************************************************)
(* synthesis/context_judge.py: ContextJudge                                *)
(***************************************************************************)
\* Field(..., ge=0, le=1) of a StrategyWeights weight, in hundredths.
WeightInRange(w) == 0 <= w /\ w <= 100

\* The validation of the four weights of StrategyWeights.
StrategyWeightsValid(w) ==
    /\ WeightInRange(w.serendipity)
    /\ WeightInRange(w.relevance)
    /\ WeightInRange(w.source_web)
    /\ WeightInRange(w.source_local)

\* What the LLM call comes to: the call raises, the model refuses (no parsed
\* message), or it answers with JSON weights.
LlmOutcome(kind, weights) == [kind |-> kind, weights |-> weights]

\* The outcome of the try body: whether it raised, and the weights it returns.
Attempt(raised, weights) == [raised |-> raised, weights |-> weights]

\* Mutant: the completion is parsed without the validation of the weights.
ParseCompletion_Unvalidated(outcome) ==
    IF outcome.kind = "json"
    THEN Attempt(FALSE, outcome.weights)
    ELSE Attempt(TRUE, outcome.weights)

\* The try body of analyze: client.beta.chat.completions.parse validates the
\* answer against StrategyWeights and raises on weights it rejects; a refusal
\* leaves message.parsed None, and printing its fields raises.
ParseCompletion(outcome) ==
    IF outcome.kind = "json" /\ StrategyWeightsValid(outcome.weights)
    THEN Attempt(FALSE, outcome.weights)
    ELSE Attempt(TRUE, outcome.weights)

\* _fallback_weights: the app name is the set of keyword groups its lower-case
\* form contains; the groups are tested in the order code, browser, notes.
fallback_weights(app_name) ==
    IF "code" \in app_name THEN StrategyWeights(15, 85, 75, 35)
    ELSE IF "browser" \in app_name THEN StrategyWeights(45, 55, 65, 45)
    ELSE IF "notes" \in app_name THEN StrategyWeights(35, 65, 25, 85)
    ELSE StrategyWeights(40, 60, 50, 50)

\* ContextJudge.analyze: the try body, and the fallback on any Exception.
judge_analyze(app_name, outcome) ==
    LET attempt == ParseCompletion(outcome)
    IN IF attempt.raised
       THEN Attempt(FALSE, fallback_weights(app_name))
       ELSE attempt

\* Bound of the judge specification: calls of analyze in a row.
MaxJudgeCalls == 2

\* Weights the LLM may answer with, two of them outside [0, 1].
JudgeRawValues == {-5, 0, 100, 105}

JudgeAppNames == SUBSET {"code", "browser", "notes"}

JudgeOutcomes ==
    {LlmOutcome("error", StrategyWeights(0, 0, 0, 0)),
     LlmOutcome("refusal", StrategyWeights(0, 0, 0, 0))}
    \cup {LlmOutcome("json", StrategyWeights(s, r, w, l)) :
            s \in JudgeRawValues, r \in JudgeRawValues,
            w \in JudgeRawValues, l \in JudgeRawValues}

JudgeIdle ==
    /\ cj_pc = "idle"
    /\ cj_app = {}
    /\ cj_outcome = LlmOutcome("none", StrategyWeights(0, 0, 0, 0))
    /\ cj_result = Attempt(FALSE, StrategyWeights(0, 0, 0, 0))
    /\ cj_calls = 0

JudgeInit == JudgeIdle

JudgeOnly ==
    UNCHANGED <<scorerVars, combineVars, routerVars, graphVars, analyzeVars, loggerVars,
                bridgeVars, orthVars,
    routeVars, writerVars>>

\* analyze is called and awaits the completion.
CjCall ==
    /\ cj_pc \in {"idle", "returned"}
    /\ cj_calls < MaxJudgeCalls
    /\ cj_app' \in JudgeAppNames
    /\ cj_pc' = "await"
    /\ cj_calls' = cj_calls + 1
    /\ cj_outcome' = LlmOutcome("none", StrategyWeights(0, 0, 0, 0))
    /\ cj_result' = Attempt(FALSE, StrategyWeights(0, 0, 0, 0))
    /\ JudgeOnly

\* The completion call ends, and analyze returns.
CjReturn ==
    /\ cj_pc = "await"
    /\ \E outcome \in JudgeOutcomes :
          /\ cj_outcome' = outcome
          /\ cj_result' = judge_analyze(cj_app, outcome)
    /\ cj_pc' = "returned"
    /\ UNCHANGED <<cj_app, cj_calls>>
    /\ JudgeOnly

JudgeNext ==
    \/ CjCall
    \/ CjReturn


(***************************************************************************)
(* retrieval/orthogonal_search.py: OrthogonalSearcher.search_all_strategies *)
(* as called by CascadeRouter._fetch_orthogonal                            *)
(***************************************************************************)
\* settings.pca_lambda_surprise = 1.0, in thousandths.
pca_lambda_surprise == 1000

pca_min_memories == 5

\* lambda_surprise = weights.serendipity * 1.5, in thousandths.
RouterLambda(serendipity) == 15 * serendipity

\* The lambda_surprise argument principal_component_search is called with:
\* _fetch_orthogonal does not pass its lambda_surprise to
\* search_all_strategies, and search_principal_component calls
\* principal_component_search(user_memories, return_subtracted=True).
PcaLambdaArgument(lambda_surprise) == None

\* lambda_val = lambda_surprise or self.settings.pca_lambda_surprise
LambdaVal(lambda_surprise) ==
    IF lambda_surprise = None \/ lambda_surprise = 0
    THEN pca_lambda_surprise
    ELSE lambda_surprise

\* The three strategies that are always dispatched, then the vector-math ones.
BaseStrategies == <<"noise_injection", "archetype_bridge", "cross_domain">>

VectorMathStrategies == <<"pca", "antonym", "bridge">>

\* include_vector_math and user_memories and len(user_memories) >= pca_min_memories
WantsVectorMath(include_vector_math, memories) ==
    include_vector_math /\ memories > 0 /\ memories >= pca_min_memories

\* source_domain = vibe.source_domain or "content"
SourceDomain(vibe) == IF vibe.source_domain = "" THEN "content" ELSE vibe.source_domain

\* [d for d in self.settings.bridge_domains if d != source_domain]
BridgeTargets(bridge_domains, vibe) == bridge_domains \ {SourceDomain(vibe)}

\* A VibeProfile: extract_vibe returns the empty profile when it fails.
VibeProfile(archetype, source_domain) ==
    [archetype |-> archetype, source_domain |-> source_domain]

EmptyVibe == VibeProfile("", "")

\* valid_results: the strategies whose coroutine ended with an OrthogonalResult.
ValidResults(tasks, outcomes) ==
    SelectSeq([i \in 1..Len(tasks) |-> [strategy |-> tasks[i], outcome |-> outcomes[i]]],
              LAMBDA r : r.outcome = "ok")

\* What _fetch_orthogonal ends with: the strategies whose results it combines,
\* and whether search_all_strategies raised into its except branch.
FetchOutcome(results, aborted) == [results |-> results, aborted |-> aborted]

\* Bound of the specification: memories the store returns for the PCA.
MaxUserMemories == 6

\* Serendipity weights above the dispatch threshold, in hundredths.
OrthSerendipity == {30, 60, 100}

\* settings.bridge_domains: the default list, and a configuration of one domain.
BridgeDomainConfigs ==
    {{"restaurant", "movie", "music", "book", "architecture"}, {"movie"}}

\* Vibes extract_vibe may return: the empty profile of a failed extraction, one
\* without a source domain, and one from a movie.
OrthVibes == {EmptyVibe, VibeProfile("a", ""), VibeProfile("a", "movie")}

OrthIdle ==
    /\ os_pc = "idle"
    /\ os_args = [serendipity |-> 0, lambda_surprise |-> 0, include_vector_math |-> FALSE,
                  bridge_domains |-> {}]
    /\ os_memories = 0
    /\ os_vibe = EmptyVibe
    /\ os_tasks = <<>>
    /\ os_outcomes = <<>>
    /\ os_lambda_val = None
    /\ os_result = FetchOutcome(<<>>, FALSE)

\* route_weighted dispatches _fetch_orthogonal with its lambda_surprise.
OrthInit ==
    /\ os_pc = "start"
    /\ \E s \in OrthSerendipity, inc \in BOOLEAN, cfg \in BridgeDomainConfigs :
          os_args = [serendipity |-> s, lambda_surprise |-> RouterLambda(s),
                     include_vector_math |-> inc, bridge_domains |-> cfg]
    /\ os_memories = 0
    /\ os_vibe = EmptyVibe
    /\ os_tasks = <<>>
    /\ os_outcomes = <<>>
    /\ os_lambda_val = None
    /\ os_result = FetchOutcome(<<>>, FALSE)

OrthOnly ==
    UNCHANGED <<scorerVars, combineVars, routerVars, graphVars, analyzeVars, loggerVars,
                bridgeVars, judgeVars, routeVars, writerVars>>

\* _fetch_orthogonal: user_memories = await self.supermemory.search("", limit=20)
\* when vector math is included; then search_all_strategies is entered.
OsFetchMemories ==
    /\ os_pc = "start"
    /\ \E n \in 0..MaxUserMemories :
          os_memories' = IF os_args.include_vector_math THEN n ELSE 0
    /\ os_pc' = "vibe"
    /\ UNCHANGED <<os_args, os_vibe, os_tasks, os_outcomes, os_lambda_val, os_result>>
    /\ OrthOnly

\* search_all_strategies up to the gather: the vibe, the task list, and the
\* choice of the bridge target, whose IndexError on an empty list leaves
\* search_all_strategies and is caught by _fetch_orthogonal, which returns [].
OsBuildTasks ==
    /\ os_pc = "vibe"
    /\ \E vibe \in OrthVibes :
          /\ os_vibe' = vibe
          /\ IF WantsVectorMath(os_args.include_vector_math, os_memories)
             THEN IF BridgeTargets(os_args.bridge_domains, vibe) = {}
                  THEN /\ os_tasks' = BaseStrategies \o SubSeq(VectorMathStrategies, 1, 2)
                       /\ os_pc' = "returned"
                       /\ os_result' = FetchOutcome(<<>>, TRUE)
                  ELSE /\ os_tasks' = BaseStrategies \o VectorMathStrategies
                       /\ os_pc' = "gather"
                       /\ UNCHANGED os_result
             ELSE /\ os_tasks' = BaseStrategies
                  /\ os_pc' = "gather"
                  /\ UNCHANGED os_result
    /\ os_outcomes' = [i \in 1..Len(os_tasks') |-> "pending"]
    /\ UNCHANGED <<os_args, os_memories, os_lambda_val>>
    /\ OrthOnly

\* One strategy coroutine of the gather ends, with a result or an exception;
\* the PCA strategy has then run principal_component_search.
OsStrategyEnds ==
    /\ os_pc = "gather"
    /\ \E i \in 1..Len(os_tasks), outcome \in {"ok", "raised"} :
          /\ os_outcomes[i] = "pending"
          /\ os_outcomes' = [os_outcomes EXCEPT ![i] = outcome]
          /\ os_lambda_val' =
                IF os_tasks[i] = "pca"
                THEN LambdaVal(PcaLambdaArgument(os_args.lambda_surprise))
                ELSE os_lambda_val
    /\ UNCHANGED <<os_pc, os_args, os_memories, os_vibe, os_tasks, os_result>>
    /\ OrthOnly

\* The gather is complete: the failed strategies are filtered out and the
\* valid results returned to _fetch_orthogonal.
OsReturn ==
    /\ os_pc = "gather"
    /\ \A i \in 1..Len(os_tasks) : os_outcomes[i] # "pending"
    /\ os_result' = FetchOutcome(ValidResults(os_tasks, os_outcomes), FALSE)
    /\ os_pc' = "returned"
    /\ UNCHANGED <<os_args, os_memories, os_vibe, os_tasks, os_outcomes, os_lambda_val>>
    /\ OrthOnly

OrthNext ==
    \/ OsFetchMemories
    \/ OsBuildTasks
    \/ OsStrategyEnds
    \/ OsReturn


(***************************************************************************)
(* retrieval/cascade_router.py: CascadeRouter.route, enable_orthogonal off *)
(***************************************************************************)
\* CascadeResult(..., graph_insight=True) of the two graph returns.
GraphPathResult(items, force_web) ==
    [CascadeResult(items, IF force_web THEN "graph_plus_web" ELSE "graph", "high")
        EXCEPT !.graph_insight = TRUE]

\* Mutant: the medium return lacks should_offer_web=True.
VectorPathResult_NeverOffersWeb(items, confidence) == CascadeResult(items, "vector", confidence)

\* The returns of Step 2: path vector, should_offer_web on medium confidence.
VectorPathResult(items, confidence) ==
    [CascadeResult(items, "vector", confidence)
        EXCEPT !.should_offer_web = (confidence = "medium")]

\* The returns of Step 3.
WebPathResult(vector_result, web_results) ==
    IF vector_result # <<>>
    THEN CascadeResult(vector_result \o web_results, "vector_plus_web", "low")
    ELSE CascadeResult(web_results, "web", "low")

RECURSIVE SumSimilarity(_)
SumSimilarity(memories) ==
    IF memories = <<>> THEN 0
    ELSE Head(memories).similarity + SumSimilarity(Tail(memories))

\* _check_vector: the confidence from the mean similarity of the first three
\* memories, low without memories.
VectorConfidence(memories) ==
    LET top == Take(memories, 3)
    IN IF memories = <<>> THEN "low"
       ELSE IF SumSimilarity(top) > max_similarity * Len(top) THEN "high"
       ELSE IF SumSimilarity(top) >= min_similarity * Len(top) THEN "medium"
       ELSE "low"

\* _check_vector: the items of filter_and_rank(memories, max_results=3).
VectorItems(memories) ==
    LET scored == filter_and_rank(memories, 3)
    IN [k \in 1..Len(scored) |-> scored[k].item]

\* Bound of the route specification: memories the vector search returns.
MaxVectorMemories == 3

\* Memories the store may return: similarity 0, distant, the band edges, echo.
RouteMemories == {Memory(1, Content(1, 1), s, None) : s \in {0, 600, 650, 850, 900}}

\* What _check_graph may return: None, or the ranked candidates.
RouteGraphResults == {PyNone, PyList(<<Memory(2, Content(2, 1), 700, None)>>)}

\* What exa.search may return.
RouteWebResults == {<<>>, <<SearchResult(1, 900)>>}

RouteIdle ==
    /\ rt_pc = "idle"
    /\ rt_force_web = FALSE
    /\ rt_graph = PyNone
    /\ rt_vector = <<>>
    /\ rt_calls = <<>>
    /\ rt_result = EmptyResult

RouteInit ==
    /\ rt_pc = "start"
    /\ rt_force_web \in BOOLEAN
    /\ rt_graph = PyNone
    /\ rt_vector = <<>>
    /\ rt_calls = <<>>
    /\ rt_result = EmptyResult

RouteOnly ==
    UNCHANGED <<scorerVars, combineVars, routerVars, graphVars, analyzeVars, loggerVars,
                bridgeVars, judgeVars, orthVars, writerVars>>

\* Step 1: graph_result = await self._check_graph(query); a graph insight
\* without force_web is returned at once.
RtCheckGraph ==
    /\ rt_pc = "start"
    /\ rt_calls' = Append(rt_calls, "graph")
    /\ \E graph_result \in RouteGraphResults :
          /\ rt_graph' = graph_result
          /\ IF graph_result.items # <<>>
             THEN IF rt_force_web
                  THEN rt_pc' = "graph_web" /\ UNCHANGED rt_result
                  ELSE /\ rt_pc' = "returned"
                       /\ rt_result' = GraphPathResult(graph_result.items, FALSE)
             ELSE rt_pc' = "vector" /\ UNCHANGED rt_result
    /\ UNCHANGED <<rt_force_web, rt_vector>>
    /\ RouteOnly

\* web_results = await self.exa.search(query, num_results=2) under force_web.
RtGraphWeb ==
    /\ rt_pc = "graph_web"
    /\ rt_calls' = Append(rt_calls, "web2")
    /\ \E web_results \in RouteWebResults :
          rt_result' = GraphPathResult(rt_graph.items \o web_results, TRUE)
    /\ rt_pc' = "returned"
    /\ UNCHANGED <<rt_force_web, rt_graph, rt_vector>>
    /\ RouteOnly

\* Step 2: vector_result, confidence = await self._check_vector(query).
RtCheckVector ==
    /\ rt_pc = "vector"
    /\ rt_calls' = Append(rt_calls, "vector")
    /\ \E memories \in SeqsUpTo(RouteMemories, MaxVectorMemories) :
          LET confidence == VectorConfidence(memories)
              vector_result == IF memories = <<>> THEN <<>> ELSE VectorItems(memories)
          IN /\ rt_vector' = vector_result
             /\ IF confidence \in {"high", "medium"}
                THEN /\ rt_pc' = "returned"
                     /\ rt_result' = VectorPathResult(vector_result, confidence)
                ELSE rt_pc' = "web" /\ UNCHANGED rt_result
    /\ UNCHANGED <<rt_force_web, rt_graph>>
    /\ RouteOnly

\* Step 3: web_results = await self.exa.search(query, num_results=5).
RtWebSearch ==
    /\ rt_pc = "web"
    /\ rt_calls' = Append(rt_calls, "web5")
    /\ \E web_results \in RouteWebResults :
          rt_result' = WebPathResult(rt_vector, web_results)
    /\ rt_pc' = "returned"
    /\ UNCHANGED <<rt_force_web, rt_graph, rt_vector>>
    /\ RouteOnly

RouteNext ==
    \/ RtCheckGraph
    \/ RtGraphWeb
    \/ RtCheckVector
    \/ RtWebSearch


(***************************************************************************)
(* retrieval/judge_logger.py: concurrent JudgeLogger._write_entry calls    *)
(***************************************************************************)
\* Bounds of the writers specification: concurrent calls, and the longest
\* line, counted in pieces of text.
MaxWriters == 2

MaxLineCells == 2

Writers == 1..MaxWriters

\* One piece of the line json.dumps(entry) + "\n" of a call; the last piece
\* ends with the newline.
Cell(writer, part, of) == [writer |-> writer, part |-> part, of |-> of]

\* The whole line of a call.
Line(writer, cells) == [k \in 1..cells |-> Cell(writer, k, cells)]

\* The entry of a call: built by log_decision or by log_feedback.
LogCall(type, cells) == [type |-> type, cells |-> cells]

\* The file object of aiofiles.open: where the file ended when it was opened,
\* and the text written to it that has not reached the file.
Handle(opened_at, buffer) == [opened_at |-> opened_at, buffer |-> buffer]

NoHandle == Handle(0, <<>>)

\* The file after data is written at offset pos.
WriteAt(file, pos, data) ==
    [i \in 1..Max(Len(file), pos + Len(data)) |->
        IF i > pos /\ i <= pos + Len(data) THEN data[i - pos] ELSE file[i]]

\* Mutant: the file is written where it ended when the call opened it.
AppendOffset_WhereOpened(file, handle) == handle.opened_at

\* mode='a': every write goes to the end the file has at the time of the write.
AppendOffset(file, handle) == Len(file)

\* The one write by which the text of a handle reaches the file.
RawWrite(file, handle, data) == WriteAt(file, AppendOffset(file, handle), data)

WritersIdle ==
    /\ wr_pc = [w \in Writers |-> "idle"]
    /\ wr_entry = [w \in Writers |-> LogCall("decision", 1)]
    /\ wr_handle = [w \in Writers |-> NoHandle]
    /\ wr_file = <<>>

\* Calls of log_decision and log_feedback that are in progress together, each
\* about to run _write_entry.
WritersInit ==
    /\ wr_pc = [w \in Writers |-> "start"]
    /\ wr_entry \in [Writers -> {LogCall(t, n) : t \in {"decision", "feedback"},
                                                n \in 1..MaxLineCells}]
    /\ wr_handle = [w \in Writers |-> NoHandle]
    /\ wr_file = <<>>

WritersOnly ==
    UNCHANGED <<scorerVars, combineVars, routerVars, graphVars, analyzeVars, loggerVars,
                bridgeVars, judgeVars, orthVars, routeVars>>

\* async with aiofiles.open(self.filepath, mode='a') as f: the file is opened,
\* or the open raises and the except branch ends the call.
WrOpen ==
    /\ \E w \in Writers, ok \in BOOLEAN :
          /\ wr_pc[w] = "start"
          /\ IF ok
             THEN /\ wr_pc' = [wr_pc EXCEPT ![w] = "opened"]
                  /\ wr_handle' = [wr_handle EXCEPT ![w] = Handle(Len(wr_file), <<>>)]
             ELSE /\ wr_pc' = [wr_pc EXCEPT ![w] = "failed"]
                  /\ UNCHANGED wr_handle
    /\ UNCHANGED <<wr_entry, wr_file>>
    /\ WritersOnly

\* await f.write(json.dumps(entry) + "\n"): the line stays in the buffer of
\* the file object, or, too long for it, is written through at once; a write
\* that raises leaves the block, which closes the file, and ends the call.
WrWrite ==
    /\ \E w \in Writers, outcome \in {"buffered", "through", "raised"} :
          LET line == Line(w, wr_entry[w].cells)
          IN /\ wr_pc[w] = "opened"
             /\ wr_pc' = [wr_pc EXCEPT ![w] = IF outcome = "raised" THEN "failed"
                                                ELSE "written"]
             /\ wr_handle' = [wr_handle EXCEPT
                                 ![w].buffer = IF outcome = "buffered" THEN line ELSE <<>>]
             /\ wr_file' = IF outcome = "through"
                           THEN RawWrite(wr_file, wr_handle[w], line)
                           ELSE wr_file
    /\ UNCHANGED wr_entry
    /\ WritersOnly

\* The end of the async with block: the file is closed, which writes the
\* buffered text.
WrClose ==
    /\ \E w \in Writers :
          /\ wr_pc[w] = "written"
          /\ wr_pc' = [wr_pc EXCEPT ![w] = "done"]
          /\ wr_file' = IF wr_handle[w].buffer # <<>>
                        THEN RawWrite(wr_file, wr_handle[w], wr_handle[w].buffer)
                        ELSE wr_file
          /\ wr_handle' = [wr_handle EXCEPT ![w].buffer = <<>>]
    /\ UNCHANGED wr_entry
    /\ WritersOnly

WritersNext ==
    \/ WrOpen
    \/ WrWrite
    \/ WrClose


(***************************************************************************)
(* Specifications: one component runs, the others stay idle                *)
(***************************************************************************)
InitScorer == ScorerInit /\ CombineIdle /\ RouterIdle /\ GraphIdle /\ AnalyzeIdle /\ LoggerIdle /\ BridgeIdle
    /\ JudgeIdle /\ OrthIdle /\ RouteIdle /\ WritersIdle

SpecScorer == InitScorer /\ [][ScorerNext]_vars

InitScorerLong ==
    /\ ScorerLongInit /\ CombineIdle /\ RouterIdle /\ GraphIdle /\ AnalyzeIdle /\ LoggerIdle
    /\ BridgeIdle /\ JudgeIdle /\ OrthIdle /\ RouteIdle /\ WritersIdle

SpecScorerLong == InitScorerLong /\ [][ScorerNext]_vars

InitCombine == CombineInit /\ ScorerIdle /\ RouterIdle /\ GraphIdle /\ AnalyzeIdle /\ LoggerIdle /\ BridgeIdle
    /\ JudgeIdle /\ OrthIdle /\ RouteIdle /\ WritersIdle

SpecCombine == InitCombine /\ [][CombineNext]_vars

InitRouter == RouterInit /\ ScorerIdle /\ CombineIdle /\ GraphIdle /\ AnalyzeIdle /\ LoggerIdle /\ BridgeIdle
    /\ JudgeIdle /\ OrthIdle /\ RouteIdle /\ WritersIdle

SpecRouter == InitRouter /\ [][RouterNext]_vars

InitGraph == GraphInit /\ ScorerIdle /\ CombineIdle /\ RouterIdle /\ AnalyzeIdle /\ LoggerIdle /\ BridgeIdle
    /\ JudgeIdle /\ OrthIdle /\ RouteIdle /\ WritersIdle

SpecGraph == InitGraph /\ [][GraphNext]_vars

InitAnalyze == AnalyzeInit /\ ScorerIdle /\ CombineIdle /\ RouterIdle /\ GraphIdle /\ LoggerIdle /\ BridgeIdle
    /\ JudgeIdle /\ OrthIdle /\ RouteIdle /\ WritersIdle

SpecAnalyze == InitAnalyze /\ [][AnalyzeNext]_vars

InitLogger ==
    /\ LoggerInit /\ ScorerIdle /\ CombineIdle /\ RouterIdle /\ GraphIdle /\ AnalyzeIdle
    /\ BridgeIdle /\ JudgeIdle /\ OrthIdle /\ RouteIdle /\ WritersIdle

SpecLogger == InitLogger /\ [][LoggerNext]_vars

InitBridge ==
    /\ BridgeInit /\ ScorerIdle /\ CombineIdle /\ RouterIdle /\ GraphIdle /\ AnalyzeIdle
    /\ LoggerIdle /\ JudgeIdle /\ OrthIdle /\ RouteIdle /\ WritersIdle

SpecBridge == InitBridge /\ [][BridgeNext]_vars

InitJudge ==
    /\ JudgeInit /\ ScorerIdle /\ CombineIdle /\ RouterIdle /\ GraphIdle /\ AnalyzeIdle
    /\ LoggerIdle /\ BridgeIdle /\ OrthIdle /\ RouteIdle /\ WritersIdle

SpecJudge == InitJudge /\ [][JudgeNext]_vars

InitOrth ==
    /\ OrthInit /\ ScorerIdle /\ CombineIdle /\ RouterIdle /\ GraphIdle /\ AnalyzeIdle
    /\ LoggerIdle /\ BridgeIdle /\ JudgeIdle /\ RouteIdle /\ WritersIdle

SpecOrth == InitOrth /\ [][OrthNext]_vars

InitRoute ==
    /\ RouteInit /\ ScorerIdle /\ CombineIdle /\ RouterIdle /\ GraphIdle /\ AnalyzeIdle
    /\ LoggerIdle /\ BridgeIdle /\ JudgeIdle /\ OrthIdle /\ WritersIdle

SpecRoute == InitRoute /\ [][RouteNext]_vars

InitWriters ==
    /\ WritersInit /\ ScorerIdle /\ CombineIdle /\ RouterIdle /\ GraphIdle /\ AnalyzeIdle
    /\ LoggerIdle /\ BridgeIdle /\ JudgeIdle /\ OrthIdle /\ RouteIdle

SpecWriters == InitWriters /\ [][WritersNext]_vars

(***************************************************************************)
(* Scorer claims                                                           *)
(***************************************************************************)
\* filter_and_rank has run.
ScorerRan == sc_pc \in {"ranked", "responded", "http500"}

\* C3: every Suggestion built by /analyze or /search-web has relevanceScore and
\* noveltyScore in [0,1], whatever the similarity, list position or age of the
\* item; no request fails on a Suggestion's score validation.
C3_SuggestionScoresInUnitInterval ==
    /\ sc_pc # "http500"
    /\ \A k \in 1..Len(sc_suggestions) :
          /\ 0 <= sc_suggestions[k].relevance_score
          /\ sc_suggestions[k].relevance_score <= 10000
          /\ 0 <= sc_suggestions[k].novelty_score
          /\ sc_suggestions[k].novelty_score <= 10000
    /\ ScorerRan => \A k \in 1..Len(sc_ranked) :
          0 < sc_ranked[k].relevance /\ sc_ranked[k].relevance <= 10000

\* C3 witness: a response whose input held a memory of similarity <= 0 and whose
\* suggestions come from a memory of similarity above 1, an aged memory and a
\* web result.
C3_Witness ==
    /\ sc_pc = "responded"
    /\ \E k \in 1..Len(sc_items) : IsMemory(sc_items[k]) /\ sc_items[k].similarity <= 0
    /\ \E k \in 1..Len(sc_suggestions) :
          IsMemory(sc_suggestions[k].item) /\ sc_suggestions[k].item.similarity > 1000
    /\ \E k \in 1..Len(sc_suggestions) :
          IsMemory(sc_suggestions[k].item) /\ sc_suggestions[k].item.last_accessed > 1

\* C4 as claimed: every tuple the Scorer outputs for an item of similarity
\* >= 0.85 (0.85 included) has novelty exactly 0.2 and relevance s x 0.5.
C4_Original ==
    /\ \A k \in 1..Len(sc_mmr) :
          sc_mmr[k].sim >= 850 =>
              sc_mmr[k].novelty = 2000 /\ sc_mmr[k].relevance = sc_mmr[k].sim * 5
    /\ \A k \in 1..Len(sc_ranked) :
          sc_ranked[k].sim >= 850 =>
              sc_ranked[k].novelty = 2000 /\ sc_ranked[k].relevance = sc_ranked[k].sim * 5

\* C4 amended: apply_mmr_scoring gives an item of similarity strictly above 0.85
\* novelty exactly 0.2 and relevance min(1, s x 0.5); an item of similarity
\* exactly 0.85 is scored as a sweet-spot item (relevance 1.0, novelty 0.5); the
\* temporal pass keeps the relevance and the novelty of an item without a
\* last-accessed timestamp or read within the last day, and lifts the novelty of
\* an older memory to min(1, 0.2 x (1 + ln(d)/10)), which is above 0.2.
C4_EchoPenaltyAboveCeiling ==
    /\ \A k \in 1..Len(sc_mmr) :
          /\ sc_mmr[k].sim > 850 =>
                /\ sc_mmr[k].novelty = 2000
                /\ sc_mmr[k].relevance = Min(10000, sc_mmr[k].sim * 5)
          /\ sc_mmr[k].sim = 850 =>
                sc_mmr[k].novelty = 5000 /\ sc_mmr[k].relevance = 10000
    /\ \A k \in 1..Len(sc_boosted) :
          sc_boosted[k].sim > 850 =>
              /\ sc_boosted[k].relevance = Min(10000, sc_boosted[k].sim * 5)
              /\ IF sc_boosted[k].item.last_accessed <= 1
                 THEN sc_boosted[k].novelty = 2000
                 ELSE /\ sc_boosted[k].novelty > 2000
                      /\ sc_boosted[k].novelty =
                           Min(10000, (2000 * (10000 + LnMilli(sc_boosted[k].item.last_accessed)))
                                          \div 10000)

\* C4 witness: the scorer has boosted a list holding a memory of similarity
\* exactly 0.85 and an aged memory above 0.85.
C4_Witness ==
    /\ sc_pc = "ranked"
    /\ \E k \in 1..Len(sc_boosted) : sc_boosted[k].sim = 850
    /\ \E k \in 1..Len(sc_boosted) :
          sc_boosted[k].sim > 850 /\ sc_boosted[k].item.last_accessed > 1
    /\ \E k \in 1..Len(sc_boosted) :
          sc_boosted[k].sim > 2000

\* C5: for 0.65 <= s < 0.85 apply_mmr_scoring yields novelty in [0.5, 1.0] and
\* relevance min(1, s x 1.2), strictly greater than s.
C5_SweetSpotBonus ==
    \A k \in 1..Len(sc_mmr) :
        (650 <= sc_mmr[k].sim /\ sc_mmr[k].sim < 850) =>
            /\ 5000 <= sc_mmr[k].novelty
            /\ sc_mmr[k].novelty <= 10000
            /\ sc_mmr[k].relevance = Min(10000, (sc_mmr[k].sim * 12))
            /\ sc_mmr[k].relevance > sc_mmr[k].sim * 10

\* C5 witness: apply_mmr_scoring has scored a memory at the floor of the band
\* and a web result placed inside the band.
C5_Witness ==
    /\ sc_pc = "mmr"
    /\ \E k \in 1..Len(sc_mmr) : IsMemory(sc_mmr[k].item) /\ sc_mmr[k].sim = 650
    /\ \E k \in 1..Len(sc_mmr) : ~IsMemory(sc_mmr[k].item) /\ sc_mmr[k].sim = 800

\* C6 as claimed: in the sweet spot the novelty is linear in s, 1.0 at 0.65 and
\* 0.5 at 0.85 (0.75 at 0.75), clamped to [0.5, 1.0].
C6_Original ==
    \A k \in 1..Len(sc_mmr) :
        (650 <= sc_mmr[k].sim /\ sc_mmr[k].sim < 850) =>
            sc_mmr[k].novelty = Max(5000, Min(10000, 10000 - (sc_mmr[k].sim - 650) * 25))

\* C6 amended: in the sweet spot the novelty is max(0.5, 1 - (s - 0.65)/0.20):
\* linear from 1.0 at s = 0.65 to 0.5 at s = 0.75 (0.75 at s = 0.70) and constant
\* 0.5 from s = 0.75 to the ceiling.
C6_SweetNoveltyShape ==
    \A k \in 1..Len(sc_mmr) :
        (650 <= sc_mmr[k].sim /\ sc_mmr[k].sim <= 850) =>
            sc_mmr[k].novelty =
                IF sc_mmr[k].sim <= 750 THEN 10000 - (sc_mmr[k].sim - 650) * 50 ELSE 5000

\* C6 witness: scored memories at 0.65, 0.70 and 0.75.
C6_Witness ==
    /\ sc_pc = "mmr"
    /\ \E k \in 1..Len(sc_mmr) : sc_mmr[k].sim = 650 /\ sc_mmr[k].novelty = 10000
    /\ \E k \in 1..Len(sc_mmr) : sc_mmr[k].sim = 700 /\ sc_mmr[k].novelty = 7500
    /\ \E k \in 1..Len(sc_mmr) : sc_mmr[k].sim = 750 /\ sc_mmr[k].novelty = 5000

\* The three memories of the doughnut scenario, without timestamps.
C7_Items == <<Memory(0, <<>>, 950, None), Memory(0, <<>>, 750, None), Memory(0, <<>>, 400, None)>>

C7_Pairs(scored) == [k \in 1..Len(scored) |-> <<scored[k].relevance, scored[k].novelty>>]

C8_Positions ==
    UNION {{<<i, r>> : r \in 1..Len(cr_results[i].items)} : i \in 1..Len(cr_results)}

\* The place of position p in round-robin order: rounds first, strategies in
\* list order within a round.
C8_Rank(p) ==
    1 + Cardinality({q \in C8_Positions : q[2] < p[2] \/ (q[2] = p[2] /\ q[1] < p[1])})

C8_PositionAt(k) == CHOOSE p \in C8_Positions : C8_Rank(p) = k

\* C8: combine_results emits the items in round-robin order over the strategies
\* in list order, each position at most once, within-strategy order preserved,
\* min(max_total, number of items) of them; with three non-empty strategies and
\* max_total >= 3 the first three outputs are A[0], B[0], C[0].
C8_RoundRobin ==
    cr_pc = "done" =>
        /\ Len(cr_combined) = Min(cr_max_total, Cardinality(C8_Positions))
        /\ \A k \in 1..Len(cr_combined) :
              cr_combined[k] = cr_results[C8_PositionAt(k)[1]].items[C8_PositionAt(k)[2]]
        /\ (/\ Len(cr_results) = 3
            /\ \A i \in 1..3 : Len(cr_results[i].items) >= 1
            /\ cr_max_total >= 3)
              => \A i \in 1..3 : cr_combined[i] = cr_results[i].items[1]

\* C8 witness: three strategies with two, one and two items, the second items
\* differing from the first, combined under a max_total that cuts the last round.
C8_Witness ==
    /\ cr_pc = "done"
    /\ Len(cr_results) = 3
    /\ Len(cr_results[1].items) = 2 /\ Len(cr_results[2].items) = 1
    /\ Len(cr_results[3].items) = 2
    /\ cr_results[1].items[1] # cr_results[1].items[2]
    /\ cr_results[1].items[1] # cr_results[2].items[1]
    /\ cr_max_total = 4
    /\ Len(cr_combined) = 4

(***************************************************************************)
(* route_weighted claims                                                   *)
(***************************************************************************)
\* The content fingerprint of a returned item.
C1_Fingerprint(item) == IF IsMemory(item) THEN item.content.head ELSE item.url

\* C1: route_weighted returns at most max_suggestions items, no two of them with
\* the same content fingerprint, whatever the weights, the items the strategies
\* return and the strategies that fail.
C1_AtMostMaxDistinctFingerprints ==
    rw_pc = "returned" =>
        /\ Len(rw_result.items) <= max_suggestions
        /\ \A i, j \in 1..Len(rw_result.items) :
              i # j => C1_Fingerprint(rw_result.items[i]) # C1_Fingerprint(rw_result.items[j])

\* C1 witness: more than three candidates, two of them with one fingerprint, a
\* failed strategy, and three items returned.
C1_Witness ==
    /\ rw_pc = "returned"
    /\ Len(rw_candidates) > 3
    /\ \E i, j \in 1..Len(rw_candidates) :
          i # j /\ C1_Fingerprint(rw_candidates[i].item) = C1_Fingerprint(rw_candidates[j].item)
    /\ \E i \in 1..Len(rw_tasks) : rw_outcomes[i].tag = "exception"
    /\ Len(rw_result.items) = 3

\* The items the inner call of task i returned, none when it raised.
C10_OkItems(i) ==
    IF rw_outcomes[i].tag # "list" THEN {}
    ELSE IF rw_tasks[i].name = "orthogonal"
         THEN UNION {Range(rw_outcomes[i].items[k].items) : k \in 1..Len(rw_outcomes[i].items)}
         ELSE Range(rw_outcomes[i].items)

\* Task i succeeded and has something to contribute within its budget.
C10_Contributes(i) == C10_OkItems(i) # {} /\ rw_tasks[i].limit > 0

\* C10: whichever strategies raise, route_weighted does not raise; every
\* candidate comes from a strategy that succeeded, under that strategy's tag; what
\* the local fetch returned and the first web result are among the candidates;
\* the best candidate heads the result; and the result is empty, with confidence
\* low, exactly when no strategy succeeded with an item.
C10_FailuresIsolated ==
    /\ rw_pc # "raised"
    /\ rw_pc = "returned" =>
          /\ \A k \in 1..Len(rw_candidates) :
                \E i \in 1..Len(rw_tasks) :
                    /\ rw_candidates[k].item \in C10_OkItems(i)
                    /\ rw_candidates[k].strategy = rw_tasks[i].strategy
          /\ \A i \in 1..Len(rw_tasks) :
                /\ rw_tasks[i].name = "local" =>
                      C10_OkItems(i) \subseteq {rw_candidates[k].item : k \in 1..Len(rw_candidates)}
                /\ (rw_tasks[i].name = "web" /\ C10_OkItems(i) # {}) =>
                      \E k \in 1..Len(rw_candidates) :
                          /\ rw_candidates[k].item = rw_outcomes[i].items[1]
                          /\ rw_candidates[k].source = "web"
                          /\ rw_candidates[k].strategy = "vector"
          /\ Range(rw_result.items) \subseteq {rw_candidates[k].item : k \in 1..Len(rw_candidates)}
          /\ rw_candidates # <<>> => rw_result.items[1] = rw_candidates[1].item
          /\ (rw_result.items = <<>>) <=> ~(\E i \in 1..Len(rw_tasks) : C10_Contributes(i))
          /\ rw_result.items = <<>> => rw_result.confidence = "low"
          /\ rw_result.path = "weighted"

\* C10 witness: three strategies dispatched, two of them raised, the third
\* returned items and the result holds them.
C10_Witness ==
    /\ rw_pc = "returned"
    /\ Len(rw_tasks) = 3
    /\ Cardinality({i \in 1..3 : rw_outcomes[i].tag = "exception"}) = 2
    /\ rw_result.items # <<>>

(***************************************************************************)
(* _check_graph claims                                                     *)
(***************************************************************************)
\* The ids of the echo anchors of the request.
C2_EchoAnchorIds ==
    {cg_anchors[k].id : k \in {j \in 1..Len(cg_anchors) : cg_anchors[j].similarity >= 850}}

\* C2: every item the graph-pivot step returns has a similarity strictly below
\* 0.85, and no echo anchor (similarity >= 0.85) is itself among the results,
\* whatever anchors the store returns and whatever neighbours get_related
\* returns, the anchor itself and memories at or above 0.85 included.
C2_NoEchoInGraphResult ==
    (cg_pc = "returned" /\ cg_result.tag = "list") =>
        \A k \in 1..Len(cg_result.items) :
            /\ cg_result.items[k].similarity < 850
            /\ cg_result.items[k].id \notin C2_EchoAnchorIds

(***************************************************************************)
(* analyze_context claims                                                  *)
(***************************************************************************)
\* Every event of step b comes after the end of step a and after every event
\* of step a.
C9_Before(a, b) ==
    \A j \in 1..Len(an_trace) :
        an_trace[j][1] = b =>
            /\ \E i \in 1..(j - 1) : an_trace[i] = <<a, "end">>
            /\ \A i \in 1..Len(an_trace) : an_trace[i][1] = a => i < j

\* A step that has begun ends before any other event.
C9_NoOverlap ==
    \A i \in 1..(Len(an_trace) - 1) :
        an_trace[i][2] = "begin" => an_trace[i + 1] = <<an_trace[i][1], "end">>

\* The order from routing to the decision log: the log is written after the
\* scoring, and after every synthesis when there is one.
C9_Tail ==
    /\ C9_Before("routing", "scoring")
    /\ C9_Before("scoring", "synthesis")
    /\ C9_Before("scoring", "logging")
    /\ \A i, j \in 1..Len(an_trace) :
          (an_trace[i][1] = "synthesis" /\ an_trace[j][1] = "logging") => i < j
    /\ C9_NoOverlap

C23_Positions(event) == {i \in 1..Len(an_trace) : an_trace[i] = event}

\* C23 as stated: for every /analyze request, the decision-log write happens
\* only after the response body (the AnalyzeResponse with suggestions,
\* timing, path and confidence) has been fully assembled.
C23_WriteAfterResponseAssembled ==
    \A j \in C23_Positions(Event("logging", "end")) :
        \E i \in C23_Positions(Event("response", "assembled")) : i < j

\* C23, amended: for every /analyze request that writes a decision record,
\* the write happens only after everything the response body carries
\* (suggestions, timing, path and confidence) has been computed; the
\* AnalyzeResponse itself is assembled from these values after log_decision
\* has returned.
C23_WriteAfterResponseContentsComputed ==
    /\ C23_Positions(Event("logging", "begin")) # {} =>
          /\ Len(an_suggestions) = Len(an_scored)
          /\ an_processing_time # None
          /\ an_cascade.items # <<>>
    /\ an_pc = At("logging", "await") => an_response = NoResponse
    /\ \A j \in C23_Positions(Event("logging", "end")) :
          /\ \A i \in C23_Positions(Event("response", "assembled")) : j < i
          /\ an_response = AnalyzeResponse("ok", an_suggestions, an_processing_time,
                                           an_cascade.path, an_cascade.confidence)

\* C23 witness: the record is in the log, the response built after it, with a
\* processing time taken before the write that the write's duration is not in.
C23_Witness ==
    /\ an_pc = At("response", "done")
    /\ C23_Positions(Event("logging", "written")) # {}
    /\ C23_Positions(Event("response", "assembled")) # {}
    /\ an_response.suggestions # <<>>
    /\ an_response.processing_time_ms < ProcessingTimeMs(an_start_time, an_clock)

C25_Decisions == SelectSeq(an_log, LAMBDA e : e.type = "decision")

C25_Responded == an_pc = At("response", "done") /\ an_response.status = "ok"

\* The log holds nothing but decision records and the lines of the /feedback
\* requests that followed the response.
C25_NoOtherEffect ==
    /\ \A k \in 1..Len(an_log) : an_log[k].type \in {"decision", "feedback"}
    /\ Len(an_log) - Len(C25_Decisions) <= Len(an_feedback)

C14_TasksOfTag(c) ==
    {i \in 1..Len(rw_tasks) :
        /\ rw_tasks[i].strategy = c.strategy
        /\ rw_tasks[i].source \in {c.source, "mixed"}}

\* The Suggestion source of a returned item.
SuggestionSource(item) == IF IsMemory(item) THEN "supermemory" ELSE "web_search"

C15_AnsweredAfter(step) ==
    /\ an_pc = At("response", "done")
    /\ \E k \in 1..Len(an_trace) : an_trace[k] = Event(step, "end")

\* The response is HTTP 200 with no suggestions and a processing time >= 0.
C15_EmptyOk ==
    /\ an_response.status = "ok"
    /\ an_response.suggestions = <<>>
    /\ an_response.processing_time_ms >= 0

\* C15: /analyze answers HTTP 200 with an empty suggestions array and a
\* non-negative processingTimeMs, never an error, when the concept extraction
\* returned no concepts and when route_weighted returned no items (the clock
\* of time.time() not being set back during the request).
C15_EmptyInputsAnswerOk ==
    /\ (C15_AnsweredAfter("concepts") /\ an_concepts = <<>>) => C15_EmptyOk
    /\ (C15_AnsweredAfter("routing") /\ an_cascade.items = <<>>) => C15_EmptyOk

\* C15 witness: the route returned no items some milliseconds after the
\* request began, and the handler has answered.
C15_Witness ==
    /\ C15_AnsweredAfter("routing")
    /\ an_cascade.items = <<>>
    /\ an_response.processing_time_ms > 0
    /\ an_start_time > 0

\* The budget of the dispatched task of that name, 0 when none was dispatched.
C17_DispatchedLimit(name) ==
    IF \E i \in 1..Len(rw_tasks) : rw_tasks[i].name = name
    THEN (CHOOSE t \in Range(rw_tasks) : t.name = name).limit
    ELSE 0

\* max(1, floor(10 x weight)) when weight > 0.1 and 0 otherwise, the weight in
\* hundredths.
C17_Budget(weight) ==
    IF weight > 10
    THEN (IF weight \div 10 >= 1 THEN weight \div 10 ELSE 1)
    ELSE 0

\* C17: the web and local budgets of route_weighted are max(1, floor(10 x w))
\* for a source weight w > 0.1 and 0 otherwise, so each is 0 or in 1..10, and
\* the weights source_web = 0.2, source_local = 0.9 give the budgets 2 and 9.
C17_FetchBudgets ==
    rw_pc \notin {"idle", "start"} =>
        /\ C17_DispatchedLimit("web") = C17_Budget(rw_weights.source_web)
        /\ C17_DispatchedLimit("local") = C17_Budget(rw_weights.source_local)
        /\ C17_DispatchedLimit("web") \in 0..10
        /\ C17_DispatchedLimit("local") \in 0..10
        /\ (rw_weights.source_web = 20 /\ rw_weights.source_local = 90) =>
              /\ C17_DispatchedLimit("web") = 2
              /\ C17_DispatchedLimit("local") = 9

\* C17 witness: the weights 0.2 and 0.9 were budgeted and dispatched.
C17_Witness ==
    /\ rw_pc = "gather"
    /\ rw_weights.source_web = 20
    /\ rw_weights.source_local = 90
    /\ C17_DispatchedLimit("web") = 2
    /\ C17_DispatchedLimit("local") = 9

\* The orthogonal, local and web fetches are dispatched exactly under their
\* conditions, each with its budget.
C18_DispatchRule ==
    LET limit_web == C17_DispatchedLimit("web")
        limit_local == C17_DispatchedLimit("local")
        names == {rw_tasks[i].name : i \in 1..Len(rw_tasks)}
    IN /\ "orthogonal" \in names <=> rw_weights.serendipity > 20
       /\ "local" \in names <=> C17_Budget(rw_weights.source_local) > 0
       /\ "web" \in names <=> C17_Budget(rw_weights.source_web) > 0
       /\ \A i \in 1..Len(rw_tasks) :
             rw_tasks[i].name = "orthogonal" =>
                rw_tasks[i].limit = Min(3, limit_web + limit_local)
       /\ Cardinality(names) = Len(rw_tasks)

\* The strategy of the i-th task returned no more items than its budget.
C18_WithinBudget(i) == Len(rw_results[i].items) <= rw_tasks[i].limit

\* Without a dispatched strategy the result is empty, weighted, low.
C18_NothingDispatched ==
    (rw_pc = "returned" /\ rw_tasks = <<>>) =>
        rw_result = CascadeResult(<<>>, "weighted", "low")

\* The part of C18 that holds: the dispatch rule, the budgets of the web and
\* the orthogonal fetch, and the result without a dispatched strategy.
C18_DispatchAndTruncatedBudgets ==
    rw_pc \notin {"idle", "start"} =>
        /\ C18_DispatchRule
        /\ \A i \in 1..Len(rw_tasks) :
              rw_tasks[i].name # "local" => C18_WithinBudget(i)
        /\ C18_NothingDispatched

\* C18: route_weighted dispatches the orthogonal fetch iff serendipity > 0.2
\* with budget min(3, limit_web + limit_local), the local fetch iff
\* limit_local > 0 and the web fetch iff limit_web > 0, each with its limit; no
\* strategy returns more items than its budget; and with no strategy
\* dispatched the result is empty with path weighted and confidence low.
C18_DispatchAndBudgets ==
    rw_pc \notin {"idle", "start"} =>
        /\ C18_DispatchRule
        /\ \A i \in 1..Len(rw_tasks) : C18_WithinBudget(i)
        /\ C18_NothingDispatched

\* The source factor S and the strategy factor T of a candidate, in hundredths.
C19_SourceFactor(c) ==
    IF c.source = "web" THEN 100 + rw_weights.source_web ELSE 100 + rw_weights.source_local

C19_StrategyFactor(c) ==
    IF c.strategy = "orthogonal"
    THEN 100 + 2 * rw_weights.serendipity
    ELSE 100 + rw_weights.relevance

\* C19: the adjusted score of every candidate of route_weighted is raw x S x T,
\* raw the memory similarity or the web score, S = 1 + source_web for a web
\* candidate and 1 + source_local otherwise, T = 1 + 2 x serendipity for the
\* orthogonal strategy and 1 + relevance otherwise: one source factor and one
\* strategy factor each.
C19_AdjustedScoreIsRawTimesTwoFactors ==
    rw_pc = "returned" =>
        \A k \in 1..Len(rw_candidates) :
            LET c == rw_candidates[k]
                raw == IF IsMemory(c.item) THEN c.item.similarity ELSE c.item.score
            IN /\ c.raw_score = raw
               /\ c.source \in {"web", "supermemory"}
               /\ c.adjusted_score = raw * C19_SourceFactor(c) * C19_StrategyFactor(c)

\* C19 witness: candidates of the three kinds were scored: a web result of the
\* orthogonal search, a web result of the web search, and a memory.
C19_Witness ==
    /\ rw_pc = "returned"
    /\ rw_weights.serendipity = 90
    /\ \E i, j, k \in 1..Len(rw_candidates) :
          /\ rw_candidates[i].strategy = "orthogonal" /\ rw_candidates[i].source = "web"
          /\ rw_candidates[j].strategy = "vector" /\ rw_candidates[j].source = "web"
          /\ rw_candidates[k].strategy = "vector" /\ rw_candidates[k].source = "supermemory"
          /\ rw_candidates[i].adjusted_score > AdjustedOne

\* The fingerprints present among the candidates.
C20_Fingerprints == {ContentKey(rw_candidates[k]) : k \in 1..Len(rw_candidates)}

\* The highest adjusted score among the candidates of a fingerprint.
C20_BestOf(f) ==
    CHOOSE s \in {rw_candidates[k].adjusted_score : k \in 1..Len(rw_candidates)} :
        /\ \E k \in 1..Len(rw_candidates) :
              ContentKey(rw_candidates[k]) = f /\ rw_candidates[k].adjusted_score = s
        /\ \A k \in 1..Len(rw_candidates) :
              ContentKey(rw_candidates[k]) = f => rw_candidates[k].adjusted_score <= s

\* C20: the items route_weighted returns are in non-increasing order of
\* adjusted score; of every fingerprint among the candidates one candidate
\* survives deduplication, one with the highest adjusted score of that
\* fingerprint; the returned items are the first max_suggestions survivors.
C20_RankedDedupedTopN ==
    (rw_pc = "returned" /\ rw_candidates # <<>>) =>
        LET unique == Deduplicate(rw_candidates)
            n == IF Len(unique) < 3 THEN Len(unique) ELSE 3
        IN /\ \A f \in C20_Fingerprints :
                 /\ Cardinality({k \in 1..Len(unique) : ContentKey(unique[k]) = f}) = 1
                 /\ \A k \in 1..Len(unique) :
                       ContentKey(unique[k]) = f => unique[k].adjusted_score = C20_BestOf(f)
           /\ \A k \in 1..Len(unique) : unique[k] \in Range(rw_candidates)
           /\ \A j, k \in 1..Len(unique) :
                 j < k => unique[j].adjusted_score >= unique[k].adjusted_score
           /\ Len(rw_result.items) = n
           /\ \A k \in 1..n : rw_result.items[k] = unique[k].item

\* C20 witness: four fingerprints among five or more candidates, two of them
\* sharing one, and three items returned.
C20_Witness ==
    /\ rw_pc = "returned"
    /\ Cardinality(C20_Fingerprints) = 4
    /\ Len(rw_candidates) >= 5
    /\ Len(rw_result.items) = 3
    /\ \E j, k \in 1..Len(rw_candidates) :
          /\ j < k
          /\ ContentKey(rw_candidates[j]) = ContentKey(rw_candidates[k])
          /\ rw_candidates[j].adjusted_score > rw_candidates[k].adjusted_score

\* The adjusted scores of the returned items, summed.
C21_SumReturned ==
    LET top == TopCandidates(rw_candidates)
        Sum[k \in 0..Len(top)] == IF k = 0 THEN 0 ELSE Sum[k - 1] + top[k].adjusted_score
    IN Sum[Len(top)]

\* C21: the confidence of a non-empty route_weighted result follows the mean
\* adjusted score of the returned items: high above 1.5, medium above 1.0 and
\* up to 1.5, low otherwise; an empty result has confidence low.
C21_ConfidenceFromMeanAdjusted ==
    rw_pc = "returned" =>
        LET n == Len(rw_result.items)
            sum == C21_SumReturned
        IN IF n = 0
           THEN rw_result.confidence = "low"
           ELSE /\ n = Len(TopCandidates(rw_candidates))
                /\ (2 * sum > 3 * 10000000 * n) => rw_result.confidence = "high"
                /\ (sum > 10000000 * n /\ 2 * sum <= 3 * 10000000 * n) =>
                      rw_result.confidence = "medium"
                /\ (sum <= 10000000 * n) => rw_result.confidence = "low"

\* C21 witness: two items returned, the first with an adjusted score above 1.0
\* and the mean at most 1.0, so the confidence is low.
C21_Witness ==
    /\ rw_pc = "returned"
    /\ Len(rw_result.items) = 2
    /\ TopCandidates(rw_candidates)[1].adjusted_score > 10000000
    /\ C21_SumReturned <= 2 * 10000000
    /\ rw_result.confidence = "low"

\* C21 second case: a medium and a high confidence are reached as well.
C21_WitnessMedium ==
    /\ rw_pc = "returned"
    /\ Len(rw_result.items) >= 2
    /\ rw_result.confidence = "medium"

C30_BothSourcesLow == rw_weights.source_web <= 10 /\ rw_weights.source_local <= 10

C30_OrthogonalDispatchedAlone ==
    rw_tasks = <<Task("orthogonal", "mixed", "orthogonal", 0)>>

C24_LineAt(w, at) ==
    /\ at + wr_entry[w].cells <= Len(wr_file)
    /\ \A k \in 1..wr_entry[w].cells : wr_file[at + k] = Cell(w, k, wr_entry[w].cells)

\* Every piece of text in the file is part of a whole line that lies around it.
C24_WholeRecords ==
    \A i \in 1..Len(wr_file) : C24_LineAt(wr_file[i].writer, i - wr_file[i].part)

\* The call's line has reached the file.
C24_Wrote(w) ==
    \/ wr_pc[w] = "done"
    \/ wr_pc[w] = "written" /\ wr_handle[w].buffer = <<>>

\* C24: under every interleaving of concurrent log_decision and log_feedback
\* calls, the log file is a sequence of whole records: each call's line is
\* contiguous, no record is split by or interleaved with another, and no
\* record that was written is lost or overwritten.
C24_ConcurrentAppendsKeepWholeRecords ==
    /\ C24_WholeRecords
    /\ \A w \in Writers : C24_Wrote(w) => \E at \in 0..Len(wr_file) : C24_LineAt(w, at)
    /\ \A i \in 1..Len(wr_file) : C24_Wrote(wr_file[i].writer)

\* C24 witness: a decision and a feedback line of two pieces each, both files
\* opened before either was written, both lines in the file.
C24_Witness ==
    /\ \A w \in Writers : wr_pc[w] = "done" /\ wr_handle[w].opened_at = 0
    /\ \E v, w \in Writers :
          /\ wr_entry[v] = LogCall("decision", 2)
          /\ wr_entry[w] = LogCall("feedback", 2)
    /\ Len(wr_file) = 4

(***************************************************************************)
(* CascadeRouter.route claims                                              *)
(***************************************************************************)
C29_Issued(call) == \E k \in 1..Len(rt_calls) : rt_calls[k] = call

C29_GraphStep ==
    rt_graph.items # <<>> =>
        /\ rt_result.path = (IF rt_force_web THEN "graph_plus_web" ELSE "graph")
        /\ rt_result.confidence = "high"
        /\ rt_result.graph_insight
        /\ ~C29_Issued("vector")
        /\ ~C29_Issued("web5")

C29_Paths ==
    /\ rt_result.path = "vector" =>
          /\ rt_result.confidence \in {"high", "medium"}
          /\ rt_result.should_offer_web <=> rt_result.confidence = "medium"
    /\ rt_result.path \in {"web", "vector_plus_web"} => rt_result.confidence = "low"
    /\ rt_result.graph_insight => rt_result.path \in {"graph", "graph_plus_web"}
    /\ rt_result.should_offer_web =>
          rt_result.path = "vector" /\ rt_result.confidence = "medium"

\* C29: every CascadeResult the legacy route() returns with orthogonal search
\* disabled has a path, confidence, graph_insight and should_offer_web that
\* agree: a non-empty graph step gives path graph (graph_plus_web under
\* force_web), confidence high, graph_insight true, with neither the vector
\* search nor the 5-result web search issued; path vector has confidence high
\* or medium and should_offer_web exactly on medium; paths web and
\* vector_plus_web have confidence low; graph_insight is true only on graph
\* paths and should_offer_web only on the medium vector path.
C29_LegacyRouteResultShape ==
    rt_pc = "returned" => C29_GraphStep /\ C29_Paths

C29_Witness ==
    /\ rt_pc = "returned"
    /\ rt_result.path = "vector"
    /\ rt_result.confidence = "medium"
    /\ rt_result.should_offer_web
    /\ rt_result.items # <<>>

(***************************************************************************)
(* search_all_strategies claims                                            *)
(***************************************************************************)
\* The PCA strategy has run its subtraction.
C22_PcaRan ==
    \E i \in 1..Len(os_tasks) : os_tasks[i] = "pca" /\ os_outcomes[i] # "pending"

\* C22: when route_weighted dispatches the orthogonal fetch, the
\* principal-component subtraction of that fetch uses the intensity
\* lambda_surprise = 1.5 x serendipity the router computed, not the configured
\* default.
C22_PcaUsesRouterLambda ==
    C22_PcaRan => os_lambda_val = 15 * os_args.serendipity

\* The strategies search_all_strategies is to dispatch for its arguments.
C26_Expected ==
    IF os_args.include_vector_math /\ os_memories >= 5
    THEN <<"noise_injection", "archetype_bridge", "cross_domain", "pca", "antonym", "bridge">>
    ELSE <<"noise_injection", "archetype_bridge", "cross_domain">>

\* The strategies whose results _fetch_orthogonal received.
C26_Returned == {os_result.results[k].strategy : k \in 1..Len(os_result.results)}

\* The strategies a failure was raised in: a coroutine that ended with an
\* exception, and the bridge strategy when no target domain could be chosen.
C26_Failed ==
    {os_tasks[i] : i \in {j \in 1..Len(os_tasks) : os_outcomes[j] = "raised"}}
    \cup (IF os_result.aborted THEN {"bridge"} ELSE {})

\* The part of C26 that holds: once the gather is reached, the dispatch rule,
\* and the isolation of the failures of the strategy coroutines.
C26_GatheredFailuresIsolated ==
    /\ os_pc = "gather" => os_tasks = C26_Expected
    /\ (os_pc = "returned" /\ ~os_result.aborted) =>
          /\ os_tasks = C26_Expected
          /\ C26_Returned = Range(os_tasks) \ C26_Failed

\* C26: search_all_strategies always dispatches the noise, archetype and
\* cross-domain strategies, and the PCA, antonym and bridge strategies exactly
\* when vector math is requested and at least pca_min_memories memories are
\* supplied; a failure of one step or strategy, vibe extraction and the choice
\* of the bridge target included, costs the items of that strategy only: the
\* results of every other strategy are returned.
C26_DispatchAndFailureIsolation ==
    /\ os_pc = "gather" => os_tasks = C26_Expected
    /\ os_pc = "returned" =>
          C26_Returned = Range(C26_Expected) \ C26_Failed

(***************************************************************************)
(* ContextJudge claims                                                     *)
(***************************************************************************)
\* The application-name heuristic: code editor, else browser, else note app,
\* else balanced.
C16_Heuristic ==
    CASE "code" \in cj_app -> StrategyWeights(15, 85, 75, 35)
      [] "code" \notin cj_app /\ "browser" \in cj_app -> StrategyWeights(45, 55, 65, 45)
      [] cj_app = {"notes"} -> StrategyWeights(35, 65, 25, 85)
      [] OTHER -> StrategyWeights(40, 60, 50, 50)

\* The LLM call failed, or answered with a weight outside [0, 1].
C16_LlmFailed ==
    \/ cj_outcome.kind # "json"
    \/ \E w \in {cj_outcome.weights.serendipity, cj_outcome.weights.relevance,
                 cj_outcome.weights.source_web, cj_outcome.weights.source_local} :
          w < 0 \/ w > 100

C27_WebResultsInSweetSpot ==
    sc_pc \in {"mmr", "ranked", "responded"} =>
        \A k \in 1..Len(sc_items) :
            ~IsMemory(sc_items[k]) =>
                LET i == k - 1
                    s == IF 850 - 50 * i >= 650 THEN 850 - 50 * i ELSE 650
                    t == sc_mmr[k]
                IN /\ t.sim = s
                   /\ 650 <= t.sim /\ t.sim <= 850
                   /\ t.relevance = (IF s * 12 <= 10000 THEN s * 12 ELSE 10000)
                   /\ t.score = t.relevance
                   /\ 5000 <= t.novelty /\ t.novelty <= 10000
                   /\ t.novelty = (IF 10000 - (s - 650) * 50 >= 5000
                                   THEN 10000 - (s - 650) * 50 ELSE 5000)

\* C27 witness: web results scored at position 0 and at position 5, where the
\* floor of 0.65 applies, with a memory between them.
C27_Witness ==
    /\ sc_pc = "mmr"
    /\ Len(sc_items) = 6
    /\ ~IsMemory(sc_items[1]) /\ sc_mmr[1].sim = 850 /\ sc_mmr[1].novelty = 5000
    /\ IsMemory(sc_items[3])
    /\ ~IsMemory(sc_items[6]) /\ sc_mmr[6].sim = 650 /\ sc_mmr[6].novelty = 10000

\* How often the tuple occurs in the list.
C28_Count(t, list) == Cardinality({k \in 1..Len(list) : list[k] = t})

C11_Logged == \E i \in 1..Len(an_trace) : an_trace[i] = <<"logging", "end">>

\* C11: when the write of a log record fails, log_decision and log_feedback
\* return normally: the /analyze request answers 200 with the suggestions
\* synthesised from the scored items, whether or not its decision was written,
\* and every /feedback request is answered "logged".
C11_WriteFailureNeverFailsRequest ==
    /\ (an_pc = <<"response", "done">> /\ C11_Logged) =>
          /\ an_response.status = "ok"
          /\ an_response.suggestions =
                [k \in 1..Len(an_scored) |-> synthesize_suggestion(an_scored[k])]
          /\ an_response.retrieval_path = an_cascade.path
    /\ \A k \in 1..Len(an_feedback) : an_feedback[k] = "logged"

\* C11 witness: the decision write and the feedback write both failed, and
\* the request answered with suggestions.
C11_Witness ==
    /\ an_pc = <<"response", "done">>
    /\ C11_Logged
    /\ an_log = <<>>
    /\ Len(an_feedback) = 1
    /\ Len(an_response.suggestions) >= 2

\* The request ids of the records of the file.
C12_LoggedIds == {lg_file[k].request_id : k \in 1..Len(lg_file)}

\* The pairs read for a request id.
C12_PairsOf(request_id) ==
    {k \in 1..Len(lg_pairs) : lg_pairs[k].decision.request_id = request_id}

\* C12 as stated: for every request id that occurs in the log the pairs hold
\* the feedback records logged under that id, in the order they were logged,
\* joined to the request's decision, and no logged feedback record is missing
\* from the pairs.
C12_Original ==
    lg_pc = "read" =>
        /\ \A r \in C12_LoggedIds :
              \E k \in C12_PairsOf(r) :
                  lg_pairs[k].feedback =
                      SelectSeq(lg_file, LAMBDA e : e.type = "feedback" /\ e.request_id = r)
        /\ \A i \in 1..Len(lg_file) :
              lg_file[i].type = "feedback" =>
                  \E k \in 1..Len(lg_pairs) : lg_file[i] \in Range(lg_pairs[k].feedback)

\* C12, amended: for every request id with a decision record in the file
\* there is exactly one pair; it holds the last decision written under the id
\* and exactly the feedback records written under the id, in file order.  A
\* request id without a decision record in the file has no pair.
C12_PairsJoinDecisionsInFile ==
    lg_pc = "read" =>
        \A r \in LogRequestIds :
            IF \E i \in 1..Len(lg_file) :
                   lg_file[i].type = "decision" /\ lg_file[i].request_id = r
            THEN /\ Cardinality(C12_PairsOf(r)) = 1
                 /\ \A k \in C12_PairsOf(r) :
                       /\ lg_pairs[k].feedback =
                             SelectSeq(lg_file,
                                       LAMBDA e : e.type = "feedback" /\ e.request_id = r)
                       /\ \E i \in 1..Len(lg_file) :
                             /\ lg_file[i] = lg_pairs[k].decision
                             /\ \A j \in (i + 1)..Len(lg_file) :
                                   ~(lg_file[j].type = "decision" /\ lg_file[j].request_id = r)
            ELSE C12_PairsOf(r) = {}

\* C12 witness: a decision and its feedback record are read back as one pair,
\* while the file also holds the feedback of a request without a decision.
C12_Witness ==
    /\ lg_pc = "read"
    /\ Len(lg_pairs) = 1
    /\ Len(lg_pairs[1].feedback) = 1
    /\ \E i \in 1..Len(lg_file) :
          /\ lg_file[i].type = "feedback"
          /\ lg_file[i].request_id # lg_pairs[1].decision.request_id

(***************************************************************************)
(* Bridge-vector cache claims                                              *)
(***************************************************************************)
\* C13: the centroid table and the bridge table are each initialised at most
\* once and never written again, under every interleaving of concurrent
\* callers that suspend at the embedding calls, and no caller holds a bridge
\* table other than the one computed from the centroids of all domains.
C13_TablesWrittenOnce ==
    /\ bv_writes.centroids <= 1
    /\ bv_writes.bridges <= 1
    /\ \A c \in DOMAIN bv_result :
          bv_result[c].init => bv_result[c].keys = BridgePairs(Table(Domains))

====
